---- MODULE Spec2Model ----
(***************************************************************************)
(* Verification model of the precision-health web application: the React   *)
(* view components (FoodLookup, RestaurantBrowser, MedicationTracker,      *)
(* GroceryShopping), their asynchronous event handlers, and the hosted     *)
(* relational backend with its row-level-security policies.                *)
(*                                                                         *)
(* Every `await` of a handler is one step: the step resolves the remote    *)
(* call the handler is waiting for, runs the synchronous code up to the    *)
(* next `await`, and issues that next call.  A remote call resolves "ok",  *)
(* resolves with a returned error value ("error", data = null), or rejects *)
(* ("throw").                                                              *)
(*                                                                         *)
(* Each loader (loadMedications, loadRecentLookups, ...) has one program   *)
(* counter: a handler that restarts a loader resolves its last call only   *)
(* once the loader's previous run has resolved, so two runs of the same    *)
(* loader never overlap in the model.  Different loaders and handlers      *)
(* overlap freely.                                                         *)
(***************************************************************************)
EXTENDS Integers, Sequences, FiniteSets, TLC

VARIABLES
    \* ---- App / Dashboard ------------------------------------------------
    appState,            \* App.tsx: 'landing' | 'auth' | 'dashboard'
    currentView,         \* Dashboard.tsx: the one mounted view
    session,             \* auth session: the signed-in user id, or NoUser
    so,                  \* handleSignOut: position
    \* ---- bookkeeping of remote calls -----------------------------------
    inflight,            \* remote calls issued and not yet resolved
    attempts,            \* per handler invocation: times each call was issued
    failures,            \* number of remote failures so far (bounded)
    failure,             \* the failure of the call resolved last, and its handling
    \* ---- FoodLookup ------------------------------------------------------
    lk,                  \* handleLookup: position and locals
    rl,                  \* loadRecentLookups: position
    result,              \* useState<LookupResult | null>
    lkLoading,           \* useState(false)
    recentLookups,       \* useState<LookupResult[]>
    food_lookup_history, \* table food_lookup_history, in lookup_date order
    rejected,            \* writes the database refused on a CHECK constraint
    \* ---- RestaurantBrowser ----------------------------------------------
    restaurants,         \* useState<Restaurant[]>
    rbLoading,           \* useState(true)
    lr,                  \* loadRestaurants: position
    selectedRestaurant,  \* useState<Restaurant | null>
    dishes,              \* useState<Dish[]>
    riskAssessments,     \* useState<Map<string, DishRiskAssessment>>
    filterRisk,          \* useState<'all' | 'safe' | 'beneficial'>
    ld,                  \* loadDishes / assessDishRisks / calculateDishRisk
    dish_risk_assessments, \* table dish_risk_assessments
    assessed,            \* the (classification, score) pairs calculateDishRisk produced
    assessedDish,        \* the dish calculateDishRisk was last run on, with its result
    \* ---- MedicationTracker ----------------------------------------------
    user_medications,    \* table user_medications
    medication_doses,    \* table medication_doses
    user_interaction_alerts, \* table user_interaction_alerts
    medications,         \* useState<UserMedication[]>
    todaysDoses,         \* useState<MedicationDose[]>
    interactionAlerts,   \* useState<InteractionAlert[]>
    mtLoading,           \* useState(true)
    lm,                  \* loadMedications: position
    ltd,                 \* loadTodaysDoses: position
    lia,                 \* loadInteractionAlerts: position
    am,                  \* addMedication / generateDoseSchedule: position, locals
    mdt,                 \* markDoseTaken: position and doseId
    ack,                 \* acknowledgeAlert: position and alertId
    \* ---- GroceryShopping ------------------------------------------------
    smart_shopping_lists, \* table smart_shopping_lists
    stores,              \* useState<GroceryStore[]>
    selectedStore,       \* useState<GroceryStore | null>
    products,            \* useState<GroceryProduct[]>
    shoppingLists,       \* useState<SmartShoppingList[]>
    currentList,         \* useState<ShoppingListItem[]>
    gsLoading,           \* useState(true)
    lst,                 \* loadStores: position
    lsl,                 \* loadShoppingLists: position
    lp,                  \* loadProducts: position
    ssl,                 \* saveShoppingList: position and locals
    gmp,                 \* generateFromMealPlan: position and locals
    \* ---- a client of the data API, under the row-level policies --------
    rlsTable,            \* the table the client works on
    rlsRows,             \* its rows
    returned             \* the rows the last request returned

appVars     == <<appState, currentView, session, so>>
callVars    == <<inflight, attempts, failures, failure, rejected>>
lookupVars  == <<lk, rl, result, lkLoading, recentLookups, food_lookup_history>>
dishVars    == <<restaurants, rbLoading, lr, selectedRestaurant, dishes,
                 riskAssessments, filterRisk, ld, dish_risk_assessments>>
riskVars    == <<assessed, assessedDish>>
medVars     == <<user_medications, medication_doses, user_interaction_alerts,
                 medications, todaysDoses, interactionAlerts, mtLoading,
                 lm, ltd, lia, am, mdt, ack>>
groceryVars == <<smart_shopping_lists, stores, selectedStore, products,
                 shoppingLists, currentList, gsLoading, lst, lsl, lp, ssl, gmp>>
rlsVars     == <<rlsTable, rlsRows, returned>>
vars        == <<appVars, callVars, lookupVars, dishVars, riskVars, medVars,
                 groceryVars, rlsVars>>
notLookup   == <<dishVars, riskVars, medVars, groceryVars, rlsVars>>
notDish     == <<lookupVars, riskVars, medVars, groceryVars, rlsVars>>
notMed      == <<lookupVars, dishVars, riskVars, groceryVars, rlsVars>>
notGrocery  == <<lookupVars, dishVars, riskVars, medVars, rlsVars>>

\* ------------------------------------------------------------------ bounds
MaxFailures == 1      \* remote failures injected in one behaviour
MaxHistory  == 1      \* rows of food_lookup_history
MaxIngredients == 2   \* ingredients of a dish given to calculateDishRisk
MaxMeds     == 1      \* medications added in one behaviour
MaxQuantity == 2      \* items put on the current shopping list
MaxLists    == 1      \* shopping lists saved in one behaviour
MaxRows     == 3      \* ids of the rows of the table a client works on

\* ------------------------------------------------------------- constants
NoUser == "none"
NoId   == "none"

\* auth.users that own a profiles row; species_type obeys valid_species_type
ProfileIds == {"u1", "u2"}
profiles   == [u1 |-> [id |-> "u1", species_type |-> "human"],
               u2 |-> [id |-> "u2", species_type |-> "pet"]]

\* columns of table profiles
ProfilesColumns == {"id", "full_name", "date_of_birth", "species_type", "pet_species",
                    "pet_breed", "weight_kg", "height_cm", "biological_sex",
                    "created_at", "updated_at"}

\* CHECK constraints of the schema
valid_species_type         == {"human", "pet"}
valid_safety               == {"safe", "caution", "avoid"}
valid_contraindication_type == {"avoid", "caution", "limit"}

\* ---------------------------------------------------------------- strings
\* Text is a tuple of characters, so that ilike and trim are computed.
LowerChar(c) ==
    CASE c = "C" -> "c" [] c = "F" -> "f" [] c = "G" -> "g" [] c = "L" -> "l"
      [] c = "K" -> "k"
      [] c = "N" -> "n" [] c = "O" -> "o" [] c = "S" -> "s" [] c = "Q" -> "q"
      [] c = "R" -> "r" [] c = "T" -> "t" [] OTHER -> c

toLowerCase(s) == [i \in 1..Len(s) |-> LowerChar(s[i])]

\* String.prototype.trim
RECURSIVE trim(_)
trim(s) ==
    IF s = <<>> THEN s
    ELSE IF Head(s) = " " THEN trim(Tail(s))
    ELSE IF s[Len(s)] = " " THEN trim(SubSeq(s, 1, Len(s) - 1))
    ELSE s

\* s contains t as a contiguous substring
includes(s, t) ==
    \E i \in 0..(Len(s) - Len(t)) : SubSeq(s, i + 1, i + Len(t)) = t

\* name ILIKE '%q%'
ilikeContains(name, q) == includes(toLowerCase(name), toLowerCase(q))
\* name ILIKE q (no wildcard)
ilike(name, q) == toLowerCase(name) = toLowerCase(q)

\* ------------------------------------------------------------ ingredients
\* Rows of table ingredients.  The first four are seed rows of the
\* migration; the others are rows the schema admits, one for each shape of
\* toxicity_warnings / species_safe / ingredient_contraindications.
NoWarnings == <<>>
ingredients ==
    { [id |-> "i_onion", name |-> <<"O","n","i","o","n">>,
       toxicity_warnings |-> <<[species |-> {"dog", "cat"}]>>,
       species_safe |-> [human |-> TRUE, dog |-> FALSE, cat |-> FALSE]],
      [id |-> "i_salmon", name |-> <<"S","a","l","m","o","n">>,
       toxicity_warnings |-> NoWarnings,
       species_safe |-> [human |-> TRUE, dog |-> TRUE, cat |-> TRUE]],
      [id |-> "i_quinoa", name |-> <<"Q","u","i","n","o","a">>,
       toxicity_warnings |-> NoWarnings,
       species_safe |-> [human |-> TRUE, dog |-> TRUE, cat |-> TRUE]],
      [id |-> "i_sweet", name |-> <<"S","w","e","e","t">>,
       toxicity_warnings |-> NoWarnings,
       species_safe |-> [human |-> TRUE, dog |-> TRUE, cat |-> FALSE]],
      \* toxic to humans, and with an 'avoid' contraindication for humans
      [id |-> "i_fugu", name |-> <<"F","u","g","u">>,
       toxicity_warnings |-> <<[species |-> {"human"}]>>,
       species_safe |-> [human |-> FALSE, dog |-> FALSE, cat |-> FALSE]],
      \* not toxic, flagged unsafe for humans, 'caution' contraindication
      [id |-> "i_rhubarb", name |-> <<"R","h","u","b","a","r","b">>,
       toxicity_warnings |-> NoWarnings,
       species_safe |-> [human |-> FALSE]],
      \* two contraindication rows for humans
      [id |-> "i_grape", name |-> <<"G","r","a","p","e">>,
       toxicity_warnings |-> NoWarnings,
       species_safe |-> [human |-> TRUE]],
      \* one 'caution' contraindication row for humans
      [id |-> "i_liquor", name |-> <<"L","i","q","u","o","r">>,
       toxicity_warnings |-> NoWarnings,
       species_safe |-> [human |-> TRUE]],
      \* one 'avoid' contraindication row for humans, not toxic
      [id |-> "i_kale", name |-> <<"K","a","l","e">>,
       toxicity_warnings |-> NoWarnings,
       species_safe |-> [human |-> TRUE]],
      \* warnings and flags keyed by the profile species 'pet'
      [id |-> "i_choc", name |-> <<"C","h","o","c">>,
       toxicity_warnings |-> <<[species |-> {"pet", "dog", "cat"}]>>,
       species_safe |-> [human |-> TRUE, pet |-> FALSE, dog |-> FALSE, cat |-> FALSE]],
      \* second row whose name differs from Onion only in case (name is UNIQUE
      \* case-sensitively)
      [id |-> "i_onion2", name |-> <<"o","n","i","o","n">>,
       toxicity_warnings |-> NoWarnings,
       species_safe |-> [human |-> TRUE]] }

IngredientIds == {i.id : i \in ingredients}
Ingredient(id) == CHOOSE i \in ingredients : i.id = id

\* Rows of table ingredient_contraindications
ingredient_contraindications ==
    { [ingredient_id |-> "i_salmon", condition_name |-> "ckd",
       contraindication_type |-> "limit", species_type |-> "human"],
      [ingredient_id |-> "i_onion", condition_name |-> "ckd",
       contraindication_type |-> "avoid", species_type |-> "dog"],
      [ingredient_id |-> "i_fugu", condition_name |-> "pregnancy",
       contraindication_type |-> "avoid", species_type |-> "human"],
      [ingredient_id |-> "i_rhubarb", condition_name |-> "kidney stones",
       contraindication_type |-> "caution", species_type |-> "human"],
      [ingredient_id |-> "i_grape", condition_name |-> "statins",
       contraindication_type |-> "avoid", species_type |-> "human"],
      [ingredient_id |-> "i_grape", condition_name |-> "reflux",
       contraindication_type |-> "limit", species_type |-> "human"],
      [ingredient_id |-> "i_kale", condition_name |-> "warfarin",
       contraindication_type |-> "avoid", species_type |-> "human"],
      [ingredient_id |-> "i_liquor", condition_name |-> "hypertension",
       contraindication_type |-> "caution", species_type |-> "human"],
      [ingredient_id |-> "i_choc", condition_name |-> "pancreatitis",
       contraindication_type |-> "limit", species_type |-> "pet"] }

\* ------------------------------------------------- row-level security
\* Commands for which each table that carries a profile_id (and profiles,
\* by its id) has a policy; every one of them is TO authenticated with
\* USING / WITH CHECK (profile_id IN (SELECT id FROM profiles WHERE auth.uid() = id))
\* (profiles: auth.uid() = id).  Row-level security is enabled on each table,
\* so a command without a policy is refused.
All == {"SELECT", "INSERT", "UPDATE", "DELETE"}

\* 20251204202057_create_precision_health_schema.sql
HealthPolicies ==
    [ profiles                  |-> {"SELECT", "INSERT", "UPDATE"},
      biomarker_records         |-> All,
      health_conditions         |-> All,
      nutrition_recommendations |-> All,
      supplement_protocols      |-> All,
      meal_plans                |-> All,
      lifestyle_tracking        |-> All,
      appointments              |-> All ]

\* 20251204211421_create_food_ecosystem_schema.sql
FoodPolicies ==
    [ dish_risk_assessments       |-> {"SELECT", "INSERT"},
      smart_shopping_lists        |-> All,
      restaurant_orders           |-> {"SELECT", "INSERT", "UPDATE"},
      user_restaurant_preferences |-> {"SELECT", "INSERT", "UPDATE"} ]

\* 20251204213754_create_medication_intelligence_schema.sql
MedicationPolicies ==
    [ upcoming_tests                |-> All,
      clinical_notes                |-> {"SELECT", "INSERT", "UPDATE"},
      user_medications              |-> All,
      medication_doses              |-> {"SELECT", "INSERT", "UPDATE"},
      user_interaction_alerts       |-> {"SELECT", "UPDATE"},
      pre_appointment_summaries     |-> {"SELECT", "INSERT"},
      medication_adherence_patterns |-> {"SELECT"} ]

\* the nutrition schema (ingredients, recipes, meal plans, lookup history)
NutritionPolicies ==
    [ user_recipes          |-> All,
      weekly_meal_plans     |-> All,
      shopping_lists        |-> All,
      food_lookup_history   |-> {"SELECT", "INSERT"},
      user_food_preferences |-> All ]

Policies == HealthPolicies @@ FoodPolicies @@ MedicationPolicies @@ NutritionPolicies
Tables   == DOMAIN Policies

\* SELECT id FROM profiles WHERE auth.uid() = id, itself under the policy
\* "Users can view own profile"
OwnProfileIds(uid) == {p \in ProfileIds : p = uid}

\* a policy that only asks for a signed-in user: USING (auth.uid() IS NOT NULL)
PolicyPassesAnyUser(uid, owner) == uid # NoUser

\* The ownership predicate of every policy, for the row's owner
PolicyPasses(uid, owner) == owner \in OwnProfileIds(uid)

\* May `uid` run command `cmd` on a row of `table` owned by `owner`?
RlsAllows(table, cmd, uid, owner) ==
    /\ cmd \in Policies[table]
    /\ PolicyPasses(uid, owner)

\* ------------------------------------------------------ call bookkeeping
Site(h, s) == [h |-> h, site |-> s, item |-> 0]
SiteAt(h, s, k) == [h |-> h, site |-> s, item |-> k]

\* the calls of handler h are forgotten when a new invocation of h starts
ResetAttempts(att, h) == [k \in {x \in DOMAIN att : x.h # h} |-> att[k]]
Bump(att, k) ==
    IF k \in DOMAIN att THEN [att EXCEPT ![k] = @ + 1] ELSE att @@ (k :> 1)

NoFailure == [h |-> "none", site |-> "none", kind |-> "none", handling |-> "none"]
Failed(h, s, kind, handling) == [h |-> h, site |-> s, kind |-> kind, handling |-> handling]

\* outcomes a remote call can have
CallOutcomes == IF failures < MaxFailures THEN {"ok", "error", "throw"} ELSE {"ok"}

\* supabase.auth.getUser(): data.user
GetUser(o) == IF o = "ok" THEN session ELSE NoUser

\* how a handler deals with a failed call: a rejected promise inside try/catch
\* reaches console.error; a returned error does so only where the code
\* looks at it
Handling(o, inTry, checksError) ==
    IF o = "throw" THEN (IF inTry THEN "logged" ELSE "uncaught")
    ELSE IF checksError THEN "logged" ELSE "ignored"

\* ---------------------------------------------------------------------
\* FoodLookup.tsx
\* ---------------------------------------------------------------------
LkIdle == [pc |-> "idle", query |-> <<>>, ingredientId |-> NoId, user |-> NoUser,
           speciesType |-> "human", classification |-> "safe", rule |-> "default",
           matched |-> {}, ingredients |-> <<>>]

\* what the user may type in the search box
Queries == { <<"O","N">>, <<"f","u","g","u">>, <<"r","h","u">>,
             <<"c","h","o","c">>, <<"z">>, <<" ">> }

\* toxicity_warnings.find(w => w.species?.includes(speciesType)): its index, 0 if none
toxicForSpecies(warnings, speciesType) ==
    LET hits == {i \in 1..Len(warnings) : speciesType \in warnings[i].species}
    IN IF hits = {} THEN 0 ELSE CHOOSE i \in hits : \A j \in hits : i <= j

\* FoodLookup.tsx lines 50-59
lookupToxicity(c, ing, speciesType) ==
    IF /\ Len(ing.toxicity_warnings) > 0
       /\ toxicForSpecies(ing.toxicity_warnings, speciesType) # 0
    THEN [classification |-> "avoid", rule |-> "toxic",
          matched |-> c.matched \cup {"toxic"}]
    ELSE c

\* FoodLookup.tsx lines 61-67
lookupSpeciesSafe(c, ing, speciesType) ==
    IF /\ c.classification = "safe"
       /\ speciesType \in DOMAIN ing.species_safe
       /\ ing.species_safe[speciesType] = FALSE
    THEN [classification |-> "avoid", rule |-> "unsafe",
          matched |-> c.matched \cup {"unsafe"}]
    ELSE c

\* the contraindication rule storing the row's contraindication_type as the
\* classification
lookupContraindicationsType(c, rows) ==
    IF rows = {} THEN c
    ELSE [classification |-> (CHOOSE r \in rows : TRUE).contraindication_type,
          rule |-> "contra", matched |-> c.matched \cup {"contraindication"}]

\* FoodLookup.tsx lines 75-86; rows = {} stands for null or an empty list
lookupContraindications(c, rows) ==
    LET avoidConditions   == {r \in rows : r.contraindication_type = "avoid"}
        cautionConditions == {r \in rows : r.contraindication_type \in {"caution", "limit"}}
    IN IF rows = {} THEN c
       ELSE IF avoidConditions # {}
       THEN [classification |-> "caution", rule |-> "contra_avoid",
             matched |-> c.matched \cup {"contraindication"}]
       ELSE IF cautionConditions # {}
       THEN [classification |-> "caution", rule |-> "contra_limit",
             matched |-> c.matched \cup {"contraindication"}]
       ELSE c

\* the LookupResult built at lines 93-98
LookupResult(l) ==
    [food_name |-> l.query, safety_classification |-> l.classification,
     rule |-> l.rule, matched |-> l.matched,
     ingredients_identified |-> l.ingredients]

\* catch / finally of handleLookup (lines 114-118)
LkCatch ==
    /\ lk' = LkIdle
    /\ lkLoading' = FALSE

NoteFailure(h, s, o, handling) ==
    /\ failures' = IF o = "ok" THEN failures ELSE failures + 1
    /\ failure'  = IF o = "ok" THEN NoFailure ELSE Failed(h, s, o, handling)

\* as NoteFailure, for a call the database itself may refuse (dbError)
NoteCall(h, s, o, dbError, inTry, checksError) ==
    /\ failures' = IF o = "ok" THEN failures ELSE failures + 1
    /\ failure'  = IF o # "ok" THEN Failed(h, s, o, Handling(o, inTry, checksError))
                   ELSE IF dbError
                   THEN Failed(h, s, "error", Handling("error", inTry, checksError))
                   ELSE NoFailure

Swap(h, from, to) == (inflight \ {Site(h, from)}) \cup {Site(h, to)}

\* form submit: lines 18-31
HandleLookup(q) ==
    /\ appState = "dashboard" /\ currentView = "food-lookup"
    /\ lk.pc = "idle"
    /\ Len(food_lookup_history) < MaxHistory
    /\ IF trim(q) = <<>>
       THEN UNCHANGED vars
       ELSE /\ lk' = [LkIdle EXCEPT !.pc = "ingredients", !.query = q]
            /\ lkLoading' = TRUE
            /\ result' = {}
            /\ inflight' = inflight \cup {Site("handleLookup", "ingredients")}
            /\ attempts' = Bump(ResetAttempts(attempts, "handleLookup"),
                                Site("handleLookup", "ingredients"))
            /\ UNCHANGED <<appVars, failures, failure, rejected, rl, recentLookups,
                           food_lookup_history, notLookup>>

\* lines 93-102: the result is shown and the second getUser is issued
LkFinish(l) ==
    /\ lk' = [l EXCEPT !.pc = "getUser2"]
    /\ result' = {LookupResult(l)}
    /\ inflight' = Swap("handleLookup", lk.pc, "getUser2")
    /\ attempts' = Bump(attempts, Site("handleLookup", "getUser2"))
    /\ UNCHANGED <<lkLoading, rl, recentLookups, food_lookup_history>>

LkNext(l, to) ==
    /\ lk' = [l EXCEPT !.pc = to]
    /\ inflight' = Swap("handleLookup", lk.pc, to)
    /\ attempts' = Bump(attempts, Site("handleLookup", to))
    /\ UNCHANGED <<result, lkLoading, rl, recentLookups, food_lookup_history>>

LkAbort ==
    /\ LkCatch
    /\ inflight' = inflight \ {Site("handleLookup", lk.pc)}
    /\ attempts' = ResetAttempts(attempts, "handleLookup")
    /\ UNCHANGED <<result, rl, recentLookups, food_lookup_history>>

\* lines 26-38 and 88-91: the ingredients select resolves
LkIngredients ==
    /\ lk.pc = "ingredients"
    /\ \E o \in CallOutcomes :
         LET matches == {i.id : i \in {x \in ingredients : ilikeContains(x.name, lk.query)}}
             rows    == IF o = "ok" /\ matches # {} THEN matches ELSE {NoId}
         IN \E data \in rows :
              /\ NoteFailure("handleLookup", "ingredients", o, Handling(o, TRUE, FALSE))
              /\ IF o = "throw" THEN LkAbort
                 ELSE IF data # NoId
                 THEN LkNext([lk EXCEPT !.ingredientId = data,
                                        !.ingredients = <<Ingredient(data).name>>],
                             "getUser1")
                 ELSE LkFinish([lk EXCEPT !.classification = "caution",
                                          !.rule = "not_found"])
    /\ UNCHANGED <<appVars, rejected, notLookup>>

\* lines 40-41
LkGetUser1 ==
    /\ lk.pc = "getUser1"
    /\ \E o \in CallOutcomes :
         /\ NoteFailure("handleLookup", "getUser1", o, Handling(o, TRUE, FALSE))
         /\ IF o = "throw" THEN LkAbort
            ELSE IF GetUser(o) # NoUser
            THEN LkNext([lk EXCEPT !.user = GetUser(o)], "profile")
            ELSE LkFinish(lk)
    /\ UNCHANGED <<appVars, rejected, notLookup>>

\* lines 42-67: the profile resolves, toxicity and species-safety rules run
LkProfile ==
    /\ lk.pc = "profile"
    /\ \E o \in CallOutcomes :
         LET visible == o = "ok" /\ lk.user \in ProfileIds
                        /\ RlsAllows("profiles", "SELECT", session, lk.user)
             speciesType == IF visible THEN profiles[lk.user].species_type ELSE "human"
             ing == Ingredient(lk.ingredientId)
             c0  == [classification |-> lk.classification, rule |-> lk.rule,
                     matched |-> lk.matched]
             c2  == lookupSpeciesSafe(lookupToxicity(c0, ing, speciesType), ing, speciesType)
         IN /\ NoteFailure("handleLookup", "profile", o, Handling(o, TRUE, FALSE))
            /\ IF o = "throw" THEN LkAbort
               ELSE LkNext([lk EXCEPT !.speciesType = speciesType,
                                      !.classification = c2.classification,
                                      !.rule = c2.rule, !.matched = c2.matched],
                           "contraindications")
    /\ UNCHANGED <<appVars, rejected, notLookup>>

\* lines 69-86
LkContraindications ==
    /\ lk.pc = "contraindications"
    /\ \E o \in CallOutcomes :
         LET rows == IF o = "ok"
                     THEN {r \in ingredient_contraindications :
                             /\ r.ingredient_id = lk.ingredientId
                             /\ r.species_type = lk.speciesType}
                     ELSE {}
             c0 == [classification |-> lk.classification, rule |-> lk.rule,
                    matched |-> lk.matched]
             c1 == lookupContraindications(c0, rows)
         IN /\ NoteFailure("handleLookup", "contraindications", o, Handling(o, TRUE, FALSE))
            /\ IF o = "throw" THEN LkAbort
               ELSE LkFinish([lk EXCEPT !.classification = c1.classification,
                                        !.rule = c1.rule, !.matched = c1.matched])
    /\ UNCHANGED <<appVars, rejected, notLookup>>

\* lines 102-110
LkGetUser2 ==
    /\ lk.pc = "getUser2"
    /\ \E o \in CallOutcomes :
         /\ NoteFailure("handleLookup", "getUser2", o, Handling(o, TRUE, FALSE))
         /\ IF o = "throw" THEN LkAbort
            ELSE IF GetUser(o) # NoUser
            THEN LkNext([lk EXCEPT !.user = GetUser(o)], "insert")
            ELSE /\ LkCatch
                 /\ inflight' = inflight \ {Site("handleLookup", "getUser2")}
                 /\ attempts' = ResetAttempts(attempts, "handleLookup")
                 /\ UNCHANGED <<result, rl, recentLookups, food_lookup_history>>
    /\ UNCHANGED <<appVars, rejected, notLookup>>

\* the row handleLookup sends to food_lookup_history (lines 104-110)
LookupHistoryRow(l) ==
    [profile_id |-> l.user, food_name |-> l.query,
     safety_classification |-> l.classification, rule |-> l.rule,
     ingredients_identified |-> l.ingredients]

\* INSERT INTO food_lookup_history by `uid`: policy and CHECK valid_safety
FoodLookupInsertAccepted(uid, row) ==
    /\ RlsAllows("food_lookup_history", "INSERT", uid, row.profile_id)
    /\ row.safety_classification \in valid_safety

\* lines 104-118: the insert resolves; loadRecentLookups() is started and
\* not awaited (lines 121-124)
LkInsert ==
    /\ lk.pc = "insert"
    /\ rl.pc = "idle"
    /\ \E o \in CallOutcomes :
         LET row == LookupHistoryRow(lk)
             accepted == o = "ok" /\ FoodLookupInsertAccepted(session, row)
         IN /\ failures' = IF o = "ok" THEN failures ELSE failures + 1
            /\ failure' = IF o = "throw"
                          THEN Failed("handleLookup", "insert", o, "logged")
                          ELSE IF ~accepted
                          THEN Failed("handleLookup", "insert", "error", "ignored")
                          ELSE NoFailure
            /\ food_lookup_history' =
                 IF accepted THEN Append(food_lookup_history, row)
                 ELSE food_lookup_history
            /\ rejected' =
                 IF o = "ok" /\ row.safety_classification \notin valid_safety
                 THEN rejected \cup {"food_lookup_history.valid_safety"}
                 ELSE rejected
            /\ LkCatch
            /\ IF o = "throw"
               THEN /\ inflight' = inflight \ {Site("handleLookup", "insert")}
                    /\ attempts' = ResetAttempts(attempts, "handleLookup")
                    /\ UNCHANGED rl
               ELSE /\ rl' = [pc |-> "getUser"]
                    /\ inflight' = (inflight \ {Site("handleLookup", "insert")})
                                     \cup {Site("loadRecentLookups", "getUser")}
                    /\ attempts' = Bump(ResetAttempts(ResetAttempts(attempts, "handleLookup"),
                                                      "loadRecentLookups"),
                                        Site("loadRecentLookups", "getUser"))
    /\ UNCHANGED <<appVars, result, recentLookups, notLookup>>

\* lines 121-124
RlGetUser ==
    /\ rl.pc = "getUser"
    /\ \E o \in CallOutcomes :
         /\ NoteFailure("loadRecentLookups", "getUser", o, Handling(o, TRUE, FALSE))
         /\ IF o # "throw" /\ GetUser(o) # NoUser
            THEN /\ rl' = [pc |-> "select"]
                 /\ inflight' = Swap("loadRecentLookups", "getUser", "select")
                 /\ attempts' = Bump(attempts, Site("loadRecentLookups", "select"))
            ELSE /\ rl' = [pc |-> "idle"]
                 /\ inflight' = inflight \ {Site("loadRecentLookups", "getUser")}
                 /\ attempts' = ResetAttempts(attempts, "loadRecentLookups")
    /\ UNCHANGED <<appVars, rejected, lk, result, lkLoading, recentLookups,
                   food_lookup_history, notLookup>>

\* rows of a table, kept in order, that `uid` may SELECT
RlsSelectSeq(table, uid, rows) ==
    SelectSeq(rows, LAMBDA r : RlsAllows(table, "SELECT", uid, r.profile_id))

Reverse(s) == [i \in 1..Len(s) |-> s[Len(s) + 1 - i]]
Limit(s, n) == SubSeq(s, 1, IF Len(s) < n THEN Len(s) ELSE n)
RecentLimit == 5

\* lines 126-134: select * order by lookup_date desc limit 5
RlSelect ==
    /\ rl.pc = "select"
    /\ \E o \in CallOutcomes :
         /\ NoteFailure("loadRecentLookups", "select", o, Handling(o, TRUE, FALSE))
         /\ recentLookups' =
              IF o = "ok"
              THEN Limit(Reverse(RlsSelectSeq("food_lookup_history", session,
                                              food_lookup_history)), RecentLimit)
              ELSE recentLookups
    /\ rl' = [pc |-> "idle"]
    /\ inflight' = inflight \ {Site("loadRecentLookups", "select")}
    /\ attempts' = ResetAttempts(attempts, "loadRecentLookups")
    /\ UNCHANGED <<appVars, rejected, lk, result, lkLoading,
                   food_lookup_history, notLookup>>

LookupNext ==
    \/ \E q \in Queries : HandleLookup(q)
    \/ LkIngredients
    \/ LkGetUser1
    \/ LkProfile
    \/ LkContraindications
    \/ LkGetUser2
    \/ LkInsert
    \/ RlGetUser
    \/ RlSelect

\* ---------------------------------------------------------------------
\* RestaurantBrowser.tsx
\* ---------------------------------------------------------------------
valid_risk_classification == {"safe", "beneficial", "neutral", "caution", "avoid"}

\* Rows of table restaurants and of table dishes
RestaurantIds == {"r1"}
dishesTable ==
    { [id |-> "d1", restaurant_id |-> "r1", available |-> TRUE,
       ingredients |-> << <<"F","u","g","u">> >>],
      [id |-> "d2", restaurant_id |-> "r1", available |-> TRUE,
       ingredients |-> << <<"s","a","l","m","o","n">>, <<"K","a","l","e">> >>],
      [id |-> "d3", restaurant_id |-> "r1", available |-> FALSE,
       ingredients |-> << <<"Q","u","i","n","o","a">> >>] }

Dish(id) == CHOOSE d \in dishesTable : d.id = id
DishIds  == {d.id : d \in dishesTable}

\* select * from dishes where restaurant_id = r and available = true
DishOrder == <<"d1", "d2", "d3">>
SelectDishes(restaurantId) ==
    SelectSeq(DishOrder, LAMBDA d : Dish(d).restaurant_id = restaurantId
                                    /\ Dish(d).available)

Max(a, b) == IF a >= b THEN a ELSE b

\* the locals of calculateDishRisk at line 130-133
RiskStart == [riskClassification |-> "neutral", riskScore |-> 50,
              rule |-> "reviewed", contraindications |-> 0]

\* line 143-148
dishToxic(ing, speciesType) ==
    /\ Len(ing.toxicity_warnings) > 0
    /\ toxicForSpecies(ing.toxicity_warnings, speciesType) # 0

\* lines 149-157
riskToxic(r) ==
    [riskClassification |-> "avoid", riskScore |-> 95, rule |-> "toxic",
     contraindications |-> r.contraindications + 1]

\* line 161
dishUnsafe(ing, speciesType) ==
    /\ speciesType \in DOMAIN ing.species_safe
    /\ ing.species_safe[speciesType] = FALSE

\* lines 162-170
riskUnsafe(r) ==
    [riskClassification |-> "avoid", riskScore |-> 90, rule |-> "unsafe",
     contraindications |-> r.contraindications + 1]

\* the contraindication rule scoring an 'avoid' contraindication as a toxic
\* ingredient is scored
riskContraindicationHigh(r, rows) ==
    IF rows = {} THEN r
    ELSE [riskClassification |-> "caution", riskScore |-> Max(r.riskScore, 95),
          rule |-> "contra_avoid", contraindications |-> r.contraindications + 1]

\* lines 180-196; rows = the contraindication row, {} for null
riskContraindication(r, rows) ==
    IF rows = {} THEN r
    ELSE LET c == CHOOSE x \in rows : TRUE IN
         IF c.contraindication_type = "avoid"
         THEN [riskClassification |-> "caution", riskScore |-> Max(r.riskScore, 70),
               rule |-> "contra_avoid", contraindications |-> r.contraindications + 1]
         ELSE IF c.contraindication_type = "limit" /\ r.riskClassification = "neutral"
         THEN [r EXCEPT !.riskClassification = "caution",
                        !.riskScore = Max(r.riskScore, 60)]
         ELSE r

\* lines 200-204
riskFinal(r) ==
    IF r.riskClassification = "neutral" /\ r.contraindications = 0
    THEN [r EXCEPT !.riskClassification = "safe", !.riskScore = 20, !.rule = "safe"]
    ELSE r

\* lines 206-213: the DishRiskAssessment returned
Assessment(dishId, r) ==
    [dish_id |-> dishId, risk_classification |-> r.riskClassification,
     risk_score |-> r.riskScore, rule |-> r.rule,
     contraindications |-> r.contraindications]

\* lines 216-223: the assessment returned from the catch block
FallbackAssessment(dishId) ==
    [dish_id |-> dishId, risk_classification |-> "neutral", risk_score |-> 50,
     rule |-> "unable", contraindications |-> 0]

\* .maybeSingle(): the row if exactly one, null if none, an error if several
maybeSingle(rows) == IF Cardinality(rows) = 1 THEN rows ELSE {}

LdIdle == [pc |-> "idle", restaurantId |-> NoId, dishList |-> <<>>, i |-> 0, j |-> 0, user |-> NoUser,
           speciesType |-> "human", risk |-> RiskStart, ingredientId |-> NoId,
           assessmentMap |-> <<>>]

\* lines 257-266
Listed(d) ==
    LET has == d \in DOMAIN riskAssessments
        cls == IF has THEN riskAssessments[d].risk_classification ELSE "undefined"
    IN IF filterRisk = "safe" THEN cls \in {"safe", "beneficial"}
       ELSE IF filterRisk = "beneficial" THEN cls = "beneficial"
       ELSE cls # "avoid"

filteredDishes == SelectSeq(dishes, Listed)

\* lines 492-493: the Add button of a listed dish is enabled
AddEnabled(d) ==
    /\ \E k \in 1..Len(filteredDishes) : filteredDishes[k] = d
    /\ ~(d \in DOMAIN riskAssessments /\ riskAssessments[d].risk_classification = "avoid")

\* lines 59-73
LoadRestaurants ==
    /\ lr = "select"
    /\ \E o \in CallOutcomes :
         /\ NoteFailure("loadRestaurants", "select", o, Handling(o, TRUE, TRUE))
         /\ restaurants' = IF o = "ok" THEN RestaurantIds ELSE restaurants
    /\ rbLoading' = FALSE
    /\ lr' = "idle"
    /\ inflight' = inflight \ {Site("loadRestaurants", "select")}
    /\ attempts' = ResetAttempts(attempts, "loadRestaurants")
    /\ UNCHANGED <<appVars, rejected, selectedRestaurant, dishes, riskAssessments,
                   filterRisk, ld, dish_risk_assessments, notDish>>

\* line 330 and the effect of lines 53-57: loadDishes(restaurant.id) starts
SelectRestaurant(r) ==
    /\ appState = "dashboard" /\ currentView = "restaurants"
    /\ ~rbLoading /\ selectedRestaurant = NoId /\ r \in restaurants
    /\ ld.pc = "idle"
    /\ selectedRestaurant' = r
    /\ ld' = [LdIdle EXCEPT !.pc = "dishes", !.restaurantId = r]
    /\ inflight' = inflight \cup {Site("loadDishes", "dishes")}
    /\ attempts' = Bump(ResetAttempts(attempts, "loadDishes"), Site("loadDishes", "dishes"))
    /\ UNCHANGED <<appVars, failures, failure, rejected, restaurants, rbLoading, lr,
                   dishes, riskAssessments, filterRisk, dish_risk_assessments, notDish>>

\* line 379
BackToRestaurants ==
    /\ appState = "dashboard" /\ currentView = "restaurants"
    /\ selectedRestaurant # NoId
    /\ selectedRestaurant' = NoId
    /\ UNCHANGED <<appVars, callVars, restaurants, rbLoading, lr, dishes,
                   riskAssessments, filterRisk, ld, dish_risk_assessments, notDish>>

\* lines 406, 416, 426
SetFilterRisk(f) ==
    /\ appState = "dashboard" /\ currentView = "restaurants"
    /\ selectedRestaurant # NoId
    /\ filterRisk # f
    /\ filterRisk' = f
    /\ UNCHANGED <<appVars, callVars, restaurants, rbLoading, lr, selectedRestaurant,
                   dishes, riskAssessments, ld, dish_risk_assessments, notDish>>

\* assessDishRisks / calculateDishRisk -------------------------------------
LdKey(i, j) == i * 10 + j
LdSite == SiteAt("loadDishes", ld.pc, LdKey(ld.i, ld.j))

\* the handler, with locals l, issues the call `to`
LdGoto(l, to) ==
    /\ ld' = [l EXCEPT !.pc = to]
    /\ inflight' = (inflight \ {LdSite}) \cup {SiteAt("loadDishes", to, LdKey(l.i, l.j))}
    /\ attempts' = Bump(attempts, SiteAt("loadDishes", to, LdKey(l.i, l.j)))

LdDone ==
    /\ ld' = LdIdle
    /\ inflight' = inflight \ {LdSite}
    /\ attempts' = ResetAttempts(attempts, "loadDishes")

\* lines 100-110: the assessment of the dish is put in the map and upserted
LdToUpsert(l, a) ==
    /\ LdGoto([l EXCEPT !.assessmentMap = (l.dishList[l.i] :> a) @@ @,
                        !.j = 0, !.risk = RiskStart, !.ingredientId = NoId],
              "upsert")
    /\ UNCHANGED riskAssessments

\* line 135: the next ingredient of the dish, or lines 200-213
LdNextIngredient(l, r, j) ==
    LET dish == Dish(l.dishList[l.i]) IN
    IF j <= Len(dish.ingredients)
    THEN /\ LdGoto([l EXCEPT !.risk = r, !.j = j, !.ingredientId = NoId], "ingredient")
         /\ UNCHANGED riskAssessments
    ELSE LdToUpsert(l, Assessment(dish.id, riskFinal(r)))

\* line 99: the next dish (calculateDishRisk starts, lines 123-127), or line 115
LdStartDish(l, i) ==
    IF i <= Len(l.dishList)
    THEN /\ LdGoto([l EXCEPT !.i = i, !.j = 0, !.risk = RiskStart], "profile")
         /\ UNCHANGED riskAssessments
    ELSE /\ riskAssessments' = l.assessmentMap
         /\ LdDone

\* lines 75-86
LdDishes ==
    /\ ld.pc = "dishes"
    /\ \E o \in CallOutcomes :
         /\ NoteFailure("loadDishes", "dishes", o, Handling(o, TRUE, TRUE))
         /\ IF o = "ok"
            THEN /\ dishes' = SelectDishes(ld.restaurantId)
                 /\ LdGoto([ld EXCEPT !.dishList = SelectDishes(ld.restaurantId)], "getUser")
            ELSE /\ LdDone
                 /\ UNCHANGED dishes
    /\ UNCHANGED <<appVars, rejected, restaurants, rbLoading, lr, selectedRestaurant,
                   riskAssessments, filterRisk, dish_risk_assessments, notDish>>

\* lines 94-97
LdGetUser ==
    /\ ld.pc = "getUser"
    /\ \E o \in CallOutcomes :
         /\ NoteFailure("loadDishes", "getUser", o, Handling(o, TRUE, FALSE))
         /\ IF o # "throw" /\ GetUser(o) # NoUser
            THEN LdStartDish([ld EXCEPT !.user = GetUser(o)], 1)
            ELSE LdDone /\ UNCHANGED riskAssessments
    /\ UNCHANGED <<appVars, rejected, restaurants, rbLoading, lr, selectedRestaurant,
                   dishes, filterRisk, dish_risk_assessments, notDish>>

\* lines 123-128: select('species_type, conditions') from profiles
DishProfileColumns == {"species_type", "conditions"}
DishProfileRows(uid, id) ==
    IF DishProfileColumns \subseteq ProfilesColumns /\ RlsAllows("profiles", "SELECT", uid, id)
    THEN {profiles[id]} ELSE {}

LdProfile ==
    /\ ld.pc = "profile"
    /\ \E o \in CallOutcomes :
         /\ NoteCall("loadDishes", "profile", o,
                     ~(DishProfileColumns \subseteq ProfilesColumns), TRUE, FALSE)
         /\ IF o = "throw"
            THEN LdToUpsert(ld, FallbackAssessment(ld.dishList[ld.i]))
            ELSE LET rows == IF o = "ok" THEN DishProfileRows(session, ld.user) ELSE {}
                     sp   == IF rows = {} THEN "human"
                             ELSE (CHOOSE x \in rows : TRUE).species_type
                 IN LdNextIngredient([ld EXCEPT !.speciesType = sp], RiskStart, 1)
    /\ UNCHANGED <<appVars, rejected, restaurants, rbLoading, lr, selectedRestaurant,
                   dishes, filterRisk, dish_risk_assessments, notDish>>

\* lines 136-140: .ilike('name', ingredientName)
DishIngredientRows(name) == {g \in ingredients : ilike(g.name, name)}

\* lines 172-177
DishContraindicationRows(ingredientId, speciesType) ==
    {c \in ingredient_contraindications :
        c.ingredient_id = ingredientId /\ c.species_type = speciesType}

\* lines 135-170
LdIngredient ==
    /\ ld.pc = "ingredient"
    /\ \E o \in CallOutcomes :
         LET all  == DishIngredientRows(Dish(ld.dishList[ld.i]).ingredients[ld.j])
             rows == IF o = "ok" THEN maybeSingle(all) ELSE {}
         IN
         /\ NoteCall("loadDishes", "ingredient", o, Cardinality(all) > 1, TRUE, FALSE)
         /\ IF o = "throw"
            THEN LdToUpsert(ld, FallbackAssessment(ld.dishList[ld.i]))
            ELSE IF rows = {}
            THEN LdNextIngredient(ld, ld.risk, ld.j + 1)
            ELSE LET ing == CHOOSE x \in rows : TRUE IN
                 IF dishToxic(ing, ld.speciesType)
                 THEN LdToUpsert(ld, Assessment(ld.dishList[ld.i], riskFinal(riskToxic(ld.risk))))
                 ELSE IF dishUnsafe(ing, ld.speciesType)
                 THEN LdToUpsert(ld, Assessment(ld.dishList[ld.i], riskFinal(riskUnsafe(ld.risk))))
                 ELSE /\ LdGoto([ld EXCEPT !.ingredientId = ing.id], "contraindication")
                      /\ UNCHANGED riskAssessments
    /\ UNCHANGED <<appVars, rejected, restaurants, rbLoading, lr, selectedRestaurant,
                   dishes, filterRisk, dish_risk_assessments, notDish>>

\* lines 172-197
LdContraindication ==
    /\ ld.pc = "contraindication"
    /\ \E o \in CallOutcomes :
         LET all  == DishContraindicationRows(ld.ingredientId, ld.speciesType)
             rows == IF o = "ok" THEN maybeSingle(all) ELSE {}
         IN
         /\ NoteCall("loadDishes", "contraindication", o, Cardinality(all) > 1, TRUE, FALSE)
         /\ IF o = "throw"
            THEN LdToUpsert(ld, FallbackAssessment(ld.dishList[ld.i]))
            ELSE LdNextIngredient(ld, riskContraindication(ld.risk, rows), ld.j + 1)
    /\ UNCHANGED <<appVars, rejected, restaurants, rbLoading, lr, selectedRestaurant,
                   dishes, filterRisk, dish_risk_assessments, notDish>>

\* lines 103-110: the row the upsert sends
DishAssessmentRow(l) ==
    LET a == l.assessmentMap[l.dishList[l.i]] IN
    [profile_id |-> l.user, dish_id |-> a.dish_id,
     risk_classification |-> a.risk_classification, risk_score |-> a.risk_score]

\* the upsert carries no id and names no conflict target: it is an INSERT,
\* which the UNIQUE(profile_id, dish_id) constraint refuses for a second row
DishUpsertUnique(row) ==
    ~\E x \in dish_risk_assessments :
        x.profile_id = row.profile_id /\ x.dish_id = row.dish_id

DishUpsertChecked(row) == row.risk_classification \in valid_risk_classification

DishUpsertAccepted(uid, row) ==
    /\ RlsAllows("dish_risk_assessments", "INSERT", uid, row.profile_id)
    /\ DishUpsertChecked(row)
    /\ DishUpsertUnique(row)

\* lines 103-115
LdUpsert ==
    /\ ld.pc = "upsert"
    /\ \E o \in CallOutcomes :
         LET row == DishAssessmentRow(ld) IN
         /\ NoteCall("loadDishes", "upsert", o,
                     ~DishUpsertAccepted(session, row), TRUE, TRUE)
         /\ dish_risk_assessments' =
               IF o = "ok" /\ DishUpsertAccepted(session, row)
               THEN dish_risk_assessments \cup {row} ELSE dish_risk_assessments
         /\ rejected' =
               IF o = "ok" /\ ~DishUpsertChecked(row)
               THEN rejected \cup {"dish_risk_assessments.valid_risk_classification"}
               ELSE rejected
         /\ IF o = "throw"
            THEN LdDone /\ UNCHANGED riskAssessments
            ELSE LdStartDish(ld, ld.i + 1)
    /\ UNCHANGED <<appVars, restaurants, rbLoading, lr, selectedRestaurant,
                   dishes, filterRisk, notDish>>

DishNext ==
    \/ LoadRestaurants
    \/ \E r \in RestaurantIds : SelectRestaurant(r)
    \/ BackToRestaurants
    \/ \E f \in {"all", "safe", "beneficial"} : SetFilterRisk(f)
    \/ LdDishes
    \/ LdGetUser
    \/ LdProfile
    \/ LdIngredient
    \/ LdContraindication
    \/ LdUpsert


\* calculateDishRisk as a function of the dish's ingredients --------------
\* lines 135-198: the loop over dish.ingredients, every call resolving
RECURSIVE riskLoop(_, _, _, _)
riskLoop(names, j, speciesType, r) ==
    IF j > Len(names) THEN r
    ELSE LET found == maybeSingle(DishIngredientRows(names[j])) IN
         IF found = {} THEN riskLoop(names, j + 1, speciesType, r)
         ELSE LET ing == CHOOSE x \in found : TRUE IN
              IF dishToxic(ing, speciesType) THEN riskToxic(r)
              ELSE IF dishUnsafe(ing, speciesType) THEN riskUnsafe(r)
              ELSE riskLoop(names, j + 1, speciesType,
                            riskContraindication(r,
                                maybeSingle(DishContraindicationRows(ing.id, speciesType))))

\* lines 121-225; threw: some call of the function rejected
calculateDishRisk(dishId, names, userId, threw) ==
    IF threw THEN FallbackAssessment(dishId)
    ELSE LET prof == DishProfileRows(userId, userId)
             speciesType == IF prof = {} THEN "human"
                            ELSE (CHOOSE x \in prof : TRUE).species_type
         IN Assessment(dishId, riskFinal(riskLoop(names, 1, speciesType, RiskStart)))

\* names a dish's ingredients list may hold: one per rule, and one that
\* matches no ingredient
IngredientNames ==
    { <<"F","u","g","u">>, <<"R","h","u","b","a","r","b">>, <<"s","a","l","m","o","n">>,
      <<"K","a","l","e">>, <<"G","r","a","p","e">>, <<"L","i","q","u","o","r">>,
      <<"Q","u","i","n","o","a">>, <<"T","a","h">> }

RECURSIVE SeqsUpTo(_, _)
SeqsUpTo(S, n) ==
    IF n = 0 THEN { <<>> }
    ELSE LET shorter == SeqsUpTo(S, n - 1)
         IN shorter \cup {Append(s, x) : s \in {y \in shorter : Len(y) = n - 1}, x \in S}

IngredientLists == SeqsUpTo(IngredientNames, MaxIngredients)

\* lines 99-110 for one dish: the assessment is computed and its
\* classification and score are stored
AssessDish(names, threw) ==
    /\ session \in ProfileIds
    /\ LET a == calculateDishRisk("dish", names, session, threw)
       IN assessed' = assessed \cup {[risk_classification |-> a.risk_classification,
                                         risk_score |-> a.risk_score]}
    /\ UNCHANGED <<appVars, callVars, lookupVars, dishVars, medVars, groceryVars, rlsVars,
                   assessedDish>>

NoDish == [ingredients |-> <<>>, risk_classification |-> "none"]

\* calculateDishRisk run on one dish with the given ingredients list, every
\* remote call resolving: the dish is kept together with its classification
AssessNamedDish(names) ==
    /\ session \in ProfileIds
    /\ assessedDish' =
          [ingredients |-> names,
           risk_classification |->
               calculateDishRisk("dish", names, session, FALSE).risk_classification]
    /\ UNCHANGED <<appVars, callVars, lookupVars, dishVars, medVars, groceryVars, rlsVars,
                   assessed>>

RiskNext ==
    \/ \E names \in IngredientLists : AssessDish(names, FALSE)
    \/ AssessDish(<<>>, TRUE)

\* ---------------------------------------------------------------------
\* MedicationTracker.tsx
\* ---------------------------------------------------------------------
valid_dose_status == {"scheduled", "taken", "missed", "skipped"}

\* medications that have a seeded row in medication_interactions
RecordedInteractions == {"Levothyroxine", "Metformin"}

\* what the user may type as medication_name
MedicationNames == {"Levothyroxine"}

\* rows the tables hold when the view is opened: those of profile u2, whose
\* one medication has been discontinued
InitialMedications ==
    { [id |-> 1, profile_id |-> "u2", medication_name |-> "Metformin", active |-> FALSE] }
InitialDoses ==
    { [id |-> 1, user_medication_id |-> 1, profile_id |-> "u2", status |-> "scheduled"] }
InitialAlerts ==
    { [id |-> 1, profile_id |-> "u2", user_medication_ids |-> {1}, acknowledged |-> FALSE] }

medTables == <<user_medications, medication_doses, user_interaction_alerts>>
medUi     == <<medications, todaysDoses, interactionAlerts, mtLoading>>

AmIdle  == [pc |-> "idle", h |-> "addMedication", name |-> "", user |-> NoUser,
            userMeds |-> <<>>, k |-> 0]
MdtIdle == [pc |-> "idle", doseId |-> 0]
AckIdle == [pc |-> "idle", alertId |-> 0]

\* the rows of a table that `uid` may SELECT
Visible(table, uid, tableRows) ==
    {r \in tableRows : RlsAllows(table, "SELECT", uid, r.profile_id)}

\* the rows of a table that an UPDATE by `uid` reaches
Updatable(table, uid, tableRows) ==
    {r \in Visible(table, uid, tableRows) : RlsAllows(table, "UPDATE", uid, r.profile_id)}

\* gen_random_uuid(): an id no row of the table has
NewId(tableRows) == Cardinality(tableRows) + 1

RECURSIVE SortedIds(_)
SortedIds(S) ==
    IF S = {} THEN <<>>
    ELSE LET m == CHOOSE x \in S : \A y \in S : x <= y
         IN <<m>> \o SortedIds(S \ {m})

\* lines 59-74
LoadMedications ==
    /\ lm = "select"
    /\ \E o \in CallOutcomes :
         /\ NoteFailure("loadMedications", "select", o, Handling(o, TRUE, TRUE))
         /\ medications' =
              IF o = "ok"
              THEN {m \in Visible("user_medications", session, user_medications) : m.active}
              ELSE medications
    /\ mtLoading' = FALSE
    /\ lm' = "idle"
    /\ inflight' = inflight \ {Site("loadMedications", "select")}
    /\ attempts' = ResetAttempts(attempts, "loadMedications")
    /\ UNCHANGED <<appVars, rejected, medTables, todaysDoses, interactionAlerts,
                   ltd, lia, am, mdt, ack, notMed>>

\* lines 76-100; every modelled dose is scheduled for today
LoadTodaysDoses ==
    /\ ltd = "select"
    /\ \E o \in CallOutcomes :
         /\ NoteFailure("loadTodaysDoses", "select", o, Handling(o, TRUE, TRUE))
         /\ todaysDoses' =
              IF o = "ok" THEN Visible("medication_doses", session, medication_doses)
              ELSE todaysDoses
    /\ ltd' = "idle"
    /\ inflight' = inflight \ {Site("loadTodaysDoses", "select")}
    /\ attempts' = ResetAttempts(attempts, "loadTodaysDoses")
    /\ UNCHANGED <<appVars, rejected, medTables, medications, interactionAlerts,
                   mtLoading, lm, lia, am, mdt, ack, notMed>>

\* lines 102-115
LoadInteractionAlerts ==
    /\ lia = "select"
    /\ \E o \in CallOutcomes :
         /\ NoteFailure("loadInteractionAlerts", "select", o, Handling(o, TRUE, TRUE))
         /\ interactionAlerts' =
              IF o = "ok"
              THEN {a \in Visible("user_interaction_alerts", session,
                                  user_interaction_alerts) : ~a.acknowledged}
              ELSE interactionAlerts
    /\ lia' = "idle"
    /\ inflight' = inflight \ {Site("loadInteractionAlerts", "select")}
    /\ attempts' = ResetAttempts(attempts, "loadInteractionAlerts")
    /\ UNCHANGED <<appVars, rejected, medTables, medications, todaysDoses,
                   mtLoading, lm, ltd, am, mdt, ack, notMed>>

\* form submit: lines 117-121
AddMedication(name) ==
    /\ appState = "dashboard" /\ currentView = "medications" /\ ~mtLoading
    /\ am.pc = "idle"
    /\ Cardinality(user_medications) < Cardinality(InitialMedications) + MaxMeds
    /\ am' = [AmIdle EXCEPT !.pc = "getUser", !.name = name]
    /\ inflight' = inflight \cup {Site("addMedication", "getUser")}
    /\ attempts' = Bump(ResetAttempts(ResetAttempts(attempts, "addMedication"),
                                      "generateDoseSchedule"),
                        Site("addMedication", "getUser"))
    /\ UNCHANGED <<appVars, failures, failure, rejected, medTables, medUi,
                   lm, ltd, lia, mdt, ack, notMed>>

AmSite == SiteAt(am.h, am.pc, am.k)

\* the handler, with locals a, issues the call `to` of function h
AmGoto(a, h, to) ==
    /\ am' = [a EXCEPT !.h = h, !.pc = to]
    /\ inflight' = (inflight \ {AmSite}) \cup {SiteAt(h, to, a.k)}
    /\ attempts' = Bump(attempts, SiteAt(h, to, a.k))
    /\ UNCHANGED <<lm, lia>>

\* a catch block that issues the failed call once more
AmRetry ==
    /\ am' = am
    /\ inflight' = inflight
    /\ attempts' = Bump(attempts, AmSite)
    /\ UNCHANGED <<lm, lia>>

\* `return` at line 122 and the catch block at lines 148-151
AmAbort ==
    /\ am' = AmIdle
    /\ inflight' = inflight \ {AmSite}
    /\ attempts' = ResetAttempts(ResetAttempts(attempts, "addMedication"),
                                 "generateDoseSchedule")
    /\ UNCHANGED <<lm, lia>>

\* lines 134-147: loadMedications() and loadInteractionAlerts() are started
\* and not awaited
AmFinish ==
    /\ am' = AmIdle
    /\ lm' = "select"
    /\ lia' = "select"
    /\ inflight' = (inflight \ {AmSite})
                     \cup {Site("loadMedications", "select"),
                           Site("loadInteractionAlerts", "select")}
    /\ attempts' =
         Bump(Bump(ResetAttempts(ResetAttempts(ResetAttempts(ResetAttempts(attempts,
                   "addMedication"), "generateDoseSchedule"), "loadMedications"),
                   "loadInteractionAlerts"),
                   Site("loadMedications", "select")),
              Site("loadInteractionAlerts", "select"))

\* lines 121-122
AmGetUser ==
    /\ am.pc = "getUser"
    /\ \E o \in CallOutcomes :
         /\ NoteFailure("addMedication", "getUser", o, Handling(o, TRUE, FALSE))
         /\ IF o # "throw" /\ GetUser(o) # NoUser
            THEN AmGoto([am EXCEPT !.user = GetUser(o)], "addMedication", "insert")
            ELSE AmAbort
    /\ UNCHANGED <<appVars, rejected, medTables, medUi, ltd, mdt, ack, notMed>>

\* lines 124-128: the row addMedication sends
MedicationRow(a) ==
    [id |-> NewId(user_medications), profile_id |-> a.user,
     medication_name |-> a.name, active |-> TRUE]

\* lines 124-132, then generateDoseSchedule starts (lines 156-160)
AmInsert ==
    /\ am.h = "addMedication" /\ am.pc = "insert"
    /\ \E o \in CallOutcomes :
         LET allowed == RlsAllows("user_medications", "INSERT", session, am.user) IN
         /\ NoteCall("addMedication", "insert", o, ~allowed, TRUE, TRUE)
         /\ IF o = "ok" /\ allowed
            THEN /\ user_medications' = user_medications \cup {MedicationRow(am)}
                 /\ AmGoto(am, "generateDoseSchedule", "select")
            ELSE /\ UNCHANGED user_medications
                 /\ AmAbort
    /\ UNCHANGED <<appVars, rejected, medication_doses, user_interaction_alerts,
                   medUi, ltd, mdt, ack, notMed>>

\* lines 156-162
AmGdsSelect ==
    /\ am.pc = "select"
    /\ lm = "idle" /\ lia = "idle"
    /\ \E o \in CallOutcomes :
         LET userMeds ==
               IF o = "ok"
               THEN SortedIds({m.id : m \in
                       {x \in Visible("user_medications", session, user_medications) :
                            x.profile_id = am.user /\ x.active}})
               ELSE <<>>
         IN
         /\ NoteFailure("generateDoseSchedule", "select", o, Handling(o, TRUE, FALSE))
         /\ IF userMeds # <<>>
            THEN AmGoto([am EXCEPT !.userMeds = userMeds, !.k = 1],
                        "generateDoseSchedule", "insert")
            ELSE AmFinish
    /\ UNCHANGED <<appVars, rejected, medTables, medUi, ltd, mdt, ack, notMed>>

\* lines 176-181: the doses of one medication; one dose stands for the batch
DoseStatusScheduled == "scheduled"
DoseRow(a) ==
    [id |-> NewId(medication_doses), user_medication_id |-> a.userMeds[a.k],
     profile_id |-> a.user, status |-> DoseStatusScheduled]

\* lines 164-188
AmGdsInsert ==
    /\ am.h = "generateDoseSchedule" /\ am.pc = "insert"
    /\ lm = "idle" /\ lia = "idle"
    /\ \E o \in CallOutcomes :
         LET row     == DoseRow(am)
             allowed == RlsAllows("medication_doses", "INSERT", session, row.profile_id)
             checked == row.status \in valid_dose_status
         IN
         /\ NoteCall("generateDoseSchedule", "insert", o, ~(allowed /\ checked),
                     TRUE, FALSE)
         /\ medication_doses' =
              IF o = "ok" /\ allowed /\ checked THEN medication_doses \cup {row}
              ELSE medication_doses
         /\ rejected' =
              IF o = "ok" /\ ~checked
              THEN rejected \cup {"medication_doses.valid_dose_status"} ELSE rejected
         /\ IF o # "throw" /\ am.k < Len(am.userMeds)
            THEN AmGoto([am EXCEPT !.k = am.k + 1], "generateDoseSchedule", "insert")
            ELSE AmFinish
    /\ UNCHANGED <<appVars, user_medications, user_interaction_alerts, medUi,
                   ltd, mdt, ack, notMed>>

\* line 333: the button of a scheduled dose; lines 191-199
MarkDoseTaken(d) ==
    /\ appState = "dashboard" /\ currentView = "medications" /\ ~mtLoading
    /\ mdt.pc = "idle"
    /\ d \in todaysDoses /\ d.status = "scheduled"
    /\ mdt' = [pc |-> "update", doseId |-> d.id]
    /\ inflight' = inflight \cup {Site("markDoseTaken", "update")}
    /\ attempts' = Bump(ResetAttempts(attempts, "markDoseTaken"),
                        Site("markDoseTaken", "update"))
    /\ UNCHANGED <<appVars, failures, failure, rejected, medTables, medUi,
                   lm, ltd, lia, am, ack, notMed>>

DoseStatusTaken == "taken"

\* lines 193-205: update ... where id = doseId, then loadTodaysDoses()
MdtUpdate ==
    /\ mdt.pc = "update"
    /\ ltd = "idle"
    /\ \E o \in CallOutcomes :
         LET targets == {r \in Updatable("medication_doses", session, medication_doses) :
                             r.id = mdt.doseId}
             checked == DoseStatusTaken \in valid_dose_status
             refused == targets # {} /\ ~checked
         IN
         /\ NoteCall("markDoseTaken", "update", o, refused, TRUE, TRUE)
         /\ medication_doses' =
              IF o = "ok" /\ ~refused
              THEN (medication_doses \ targets)
                     \cup {[r EXCEPT !.status = DoseStatusTaken] : r \in targets}
              ELSE medication_doses
         /\ rejected' =
              IF o = "ok" /\ refused
              THEN rejected \cup {"medication_doses.valid_dose_status"} ELSE rejected
         /\ IF o = "ok" /\ ~refused
            THEN /\ ltd' = "select"
                 /\ inflight' = (inflight \ {Site("markDoseTaken", "update")})
                                  \cup {Site("loadTodaysDoses", "select")}
                 /\ attempts' = Bump(ResetAttempts(ResetAttempts(attempts, "markDoseTaken"),
                                                   "loadTodaysDoses"),
                                     Site("loadTodaysDoses", "select"))
            ELSE /\ inflight' = inflight \ {Site("markDoseTaken", "update")}
                 /\ attempts' = ResetAttempts(attempts, "markDoseTaken")
                 /\ UNCHANGED ltd
    /\ mdt' = MdtIdle
    /\ UNCHANGED <<appVars, user_medications, user_interaction_alerts, medUi,
                   lm, lia, am, ack, notMed>>

\* line 286; lines 208-216
AcknowledgeAlert(a) ==
    /\ appState = "dashboard" /\ currentView = "medications" /\ ~mtLoading
    /\ ack.pc = "idle"
    /\ a \in interactionAlerts
    /\ ack' = [pc |-> "update", alertId |-> a.id]
    /\ inflight' = inflight \cup {Site("acknowledgeAlert", "update")}
    /\ attempts' = Bump(ResetAttempts(attempts, "acknowledgeAlert"),
                        Site("acknowledgeAlert", "update"))
    /\ UNCHANGED <<appVars, failures, failure, rejected, medTables, medUi,
                   lm, ltd, lia, am, mdt, notMed>>

\* lines 210-222: update ... where id = alertId, then loadInteractionAlerts()
AckUpdate ==
    /\ ack.pc = "update"
    /\ lia = "idle"
    /\ \E o \in CallOutcomes :
         LET targets == {r \in Updatable("user_interaction_alerts", session,
                                         user_interaction_alerts) : r.id = ack.alertId}
         IN
         /\ NoteFailure("acknowledgeAlert", "update", o, Handling(o, TRUE, TRUE))
         /\ user_interaction_alerts' =
              IF o = "ok"
              THEN (user_interaction_alerts \ targets)
                     \cup {[r EXCEPT !.acknowledged = TRUE] : r \in targets}
              ELSE user_interaction_alerts
         /\ IF o = "ok"
            THEN /\ lia' = "select"
                 /\ inflight' = (inflight \ {Site("acknowledgeAlert", "update")})
                                  \cup {Site("loadInteractionAlerts", "select")}
                 /\ attempts' = Bump(ResetAttempts(ResetAttempts(attempts, "acknowledgeAlert"),
                                                   "loadInteractionAlerts"),
                                     Site("loadInteractionAlerts", "select"))
            ELSE /\ inflight' = inflight \ {Site("acknowledgeAlert", "update")}
                 /\ attempts' = ResetAttempts(attempts, "acknowledgeAlert")
                 /\ UNCHANGED lia
    /\ ack' = AckIdle
    /\ UNCHANGED <<appVars, rejected, user_medications, medication_doses, medUi,
                   lm, ltd, am, mdt, notMed>>

MedNext ==
    \/ LoadMedications
    \/ LoadTodaysDoses
    \/ LoadInteractionAlerts
    \/ \E name \in MedicationNames : AddMedication(name)
    \/ AmGetUser
    \/ AmInsert
    \/ AmGdsSelect
    \/ AmGdsInsert
    \/ \E d \in todaysDoses : MarkDoseTaken(d)
    \/ \E a \in interactionAlerts : AcknowledgeAlert(a)
    \/ MdtUpdate
    \/ AckUpdate

\* ---------------------------------------------------------------------
\* GroceryShopping.tsx
\* ---------------------------------------------------------------------
valid_list_type == {"weekly", "monthly", "budget", "organic", "quick"}
valid_status    == {"draft", "ready", "ordered", "delivered"}

\* rows of grocery_stores and grocery_products
grocery_stores ==
    { [id |-> "s1", delivery_available |-> TRUE],
      [id |-> "s2", delivery_available |-> FALSE] }
grocery_products ==
    { [id |-> "p1", store_id |-> "s1", in_stock |-> TRUE,  price |-> 2,
       name |-> <<"S","a","l","m","o","n">>],
      [id |-> "p2", store_id |-> "s1", in_stock |-> TRUE,  price |-> 3,
       name |-> <<"s","a","l","m","o","n","s">>],
      [id |-> "p3", store_id |-> "s1", in_stock |-> FALSE, price |-> 5,
       name |-> <<"T","o","f","u">>] }

\* the list profile u2 saved before the view is opened
InitialLists ==
    { [id |-> 1, profile_id |-> "u2", store_id |-> "s1", source_meal_plan_id |-> NoId,
       items |-> << [product_id |-> "p1", quantity |-> 1, price |-> 2] >>,
       total_cost |-> 2, list_type |-> "weekly", status |-> "ready"] }

\* the locals of saveShoppingList; items and store are the currentList and
\* selectedStore of the render whose Save button was clicked (the handler's
\* closure), whatever the state becomes while the handler awaits
SslIdle == [pc |-> "idle", user |-> NoUser, items |-> <<>>, store |-> NoId]

\* lines 66-80
LoadStores ==
    /\ lst = "select"
    /\ \E o \in CallOutcomes :
         /\ NoteFailure("loadStores", "select", o, Handling(o, TRUE, TRUE))
         /\ stores' = IF o = "ok"
                      THEN {s.id : s \in {x \in grocery_stores : x.delivery_available}}
                      ELSE stores
    /\ gsLoading' = FALSE
    /\ lst' = "idle"
    /\ inflight' = inflight \ {Site("loadStores", "select")}
    /\ attempts' = ResetAttempts(attempts, "loadStores")
    /\ UNCHANGED <<appVars, rejected, smart_shopping_lists, selectedStore, products,
                   shoppingLists, currentList, lsl, lp, ssl, gmp, notGrocery>>

\* line 322 and the effect of lines 60-64: loadProducts(store.id) starts
SelectStore(s) ==
    /\ appState = "dashboard" /\ currentView = "grocery"
    /\ ~gsLoading /\ s \in stores /\ selectedStore # s
    /\ lp = "idle"
    /\ selectedStore' = s
    /\ lp' = "select"
    /\ inflight' = inflight \cup {Site("loadProducts", "select")}
    /\ attempts' = Bump(ResetAttempts(attempts, "loadProducts"),
                        Site("loadProducts", "select"))
    /\ UNCHANGED <<appVars, failures, failure, rejected, smart_shopping_lists, stores,
                   products, shoppingLists, currentList, gsLoading, lst, lsl, ssl, gmp,
                   notGrocery>>

\* lines 82-96
LoadProducts ==
    /\ lp = "select"
    /\ \E o \in CallOutcomes :
         /\ NoteFailure("loadProducts", "select", o, Handling(o, TRUE, TRUE))
         /\ products' = IF o = "ok"
                        THEN {g.id : g \in {x \in grocery_products :
                                   x.store_id = selectedStore /\ x.in_stock}}
                        ELSE products
    /\ lp' = "idle"
    /\ inflight' = inflight \ {Site("loadProducts", "select")}
    /\ attempts' = ResetAttempts(attempts, "loadProducts")
    /\ UNCHANGED <<appVars, rejected, smart_shopping_lists, stores, selectedStore,
                   shoppingLists, currentList, gsLoading, lst, lsl, ssl, gmp, notGrocery>>

\* lines 98-101
LslGetUser ==
    /\ lsl = "getUser"
    /\ \E o \in CallOutcomes :
         /\ NoteFailure("loadShoppingLists", "getUser", o, Handling(o, TRUE, FALSE))
         /\ IF o # "throw" /\ GetUser(o) # NoUser
            THEN /\ lsl' = "select"
                 /\ inflight' = Swap("loadShoppingLists", "getUser", "select")
                 /\ attempts' = Bump(attempts, Site("loadShoppingLists", "select"))
            ELSE /\ lsl' = "idle"
                 /\ inflight' = inflight \ {Site("loadShoppingLists", "getUser")}
                 /\ attempts' = ResetAttempts(attempts, "loadShoppingLists")
    /\ UNCHANGED <<appVars, rejected, smart_shopping_lists, stores, selectedStore,
                   products, shoppingLists, currentList, gsLoading, lst, lp, ssl, gmp,
                   notGrocery>>

\* lines 103-113
LslSelect ==
    /\ lsl = "select"
    /\ \E o \in CallOutcomes :
         /\ NoteFailure("loadShoppingLists", "select", o, Handling(o, TRUE, TRUE))
         /\ shoppingLists' =
              IF o = "ok"
              THEN Visible("smart_shopping_lists", session, smart_shopping_lists)
              ELSE shoppingLists
    /\ lsl' = "idle"
    /\ inflight' = inflight \ {Site("loadShoppingLists", "select")}
    /\ attempts' = ResetAttempts(attempts, "loadShoppingLists")
    /\ UNCHANGED <<appVars, rejected, smart_shopping_lists, stores, selectedStore,
                   products, currentList, gsLoading, lst, lp, ssl, gmp, notGrocery>>

Product(id) == CHOOSE g \in grocery_products : g.id = id

RECURSIVE totalQuantity(_)
totalQuantity(list) ==
    IF list = <<>> THEN 0 ELSE Head(list).quantity + totalQuantity(Tail(list))

\* lines 115-139
addToList(list, productId) ==
    IF \E i \in 1..Len(list) : list[i].product_id = productId
    THEN [i \in 1..Len(list) |->
            IF list[i].product_id = productId
            THEN [list[i] EXCEPT !.quantity = @ + 1] ELSE list[i]]
    ELSE Append(list, [product_id |-> productId, quantity |-> 1,
                       price |-> Product(productId).price])

\* line 364
AddToList(g) ==
    /\ appState = "dashboard" /\ currentView = "grocery" /\ ~gsLoading
    /\ g \in products
    /\ totalQuantity(currentList) < MaxQuantity
    /\ currentList' = addToList(currentList, g)
    /\ UNCHANGED <<appVars, callVars, smart_shopping_lists, stores, selectedStore,
                   products, shoppingLists, gsLoading, lst, lsl, lp, ssl, gmp, notGrocery>>

\* lines 166-168
\* the prices alone, each item counted once
RECURSIVE calculateTotalOfPrices(_)
calculateTotalOfPrices(list) ==
    IF list = <<>> THEN 0
    ELSE Head(list).price + calculateTotalOfPrices(Tail(list))

RECURSIVE calculateTotal(_)
calculateTotal(list) ==
    IF list = <<>> THEN 0
    ELSE Head(list).price * Head(list).quantity + calculateTotal(Tail(list))

\* line 506 (shown while the current list is not empty); lines 170-172.
\* Bound on the clicks: of saveShoppingList and generateFromMealPlan, one is
\* started once the other has returned.
SaveShoppingList ==
    /\ appState = "dashboard" /\ currentView = "grocery" /\ ~gsLoading
    /\ ssl.pc = "idle" /\ gmp.pc = "idle"
    /\ currentList # <<>>
    /\ Cardinality(smart_shopping_lists) < Cardinality(InitialLists) + MaxLists
    /\ ssl' = [SslIdle EXCEPT !.pc = "getUser", !.items = currentList,
                               !.store = selectedStore]
    /\ inflight' = inflight \cup {Site("saveShoppingList", "getUser")}
    /\ attempts' = Bump(ResetAttempts(attempts, "saveShoppingList"),
                        Site("saveShoppingList", "getUser"))
    /\ UNCHANGED <<appVars, failures, failure, rejected, smart_shopping_lists, stores,
                   selectedStore, products, shoppingLists, currentList, gsLoading,
                   lst, lsl, lp, gmp, notGrocery>>

\* a catch block that empties the current list as the success path does
SslCatchClears ==
    /\ ssl' = SslIdle
    /\ inflight' = inflight \ {Site("saveShoppingList", ssl.pc)}
    /\ attempts' = ResetAttempts(attempts, "saveShoppingList")
    /\ currentList' = <<>>
    /\ UNCHANGED <<smart_shopping_lists, shoppingLists, lsl>>

\* `return` at line 173 and the catch block at lines 193-196
SslCatch ==
    /\ ssl' = SslIdle
    /\ inflight' = inflight \ {Site("saveShoppingList", ssl.pc)}
    /\ attempts' = ResetAttempts(attempts, "saveShoppingList")
    /\ UNCHANGED <<smart_shopping_lists, currentList, shoppingLists, lsl>>

\* lines 172-176
SslGetUser ==
    /\ ssl.pc = "getUser"
    /\ \E o \in CallOutcomes :
         /\ NoteFailure("saveShoppingList", "getUser", o, Handling(o, TRUE, FALSE))
         /\ IF o # "throw" /\ GetUser(o) # NoUser
            THEN /\ ssl' = [ssl EXCEPT !.pc = "insert", !.user = GetUser(o)]
                 /\ inflight' = Swap("saveShoppingList", "getUser", "insert")
                 /\ attempts' = Bump(attempts, Site("saveShoppingList", "insert"))
                 /\ UNCHANGED <<smart_shopping_lists, currentList, shoppingLists, lsl>>
            ELSE SslCatch
    /\ UNCHANGED <<appVars, rejected, stores, selectedStore, products, gsLoading,
                   lst, lp, gmp, notGrocery>>

\* lines 178-186: the row saveShoppingList sends
ShoppingListRow(l, list) ==
    [id |-> NewId(smart_shopping_lists), profile_id |-> l.user,
     store_id |-> l.store, source_meal_plan_id |-> NoId,
     items |-> list, total_cost |-> calculateTotal(list),
     list_type |-> "weekly", status |-> "ready"]

ShoppingListChecked(row) ==
    /\ row.list_type \in valid_list_type
    /\ row.status \in valid_status

\* lines 178-192: on success the current list is cleared and
\* loadShoppingLists() is started and not awaited
SslInsert ==
    /\ ssl.pc = "insert"
    /\ lsl = "idle"
    /\ \E o \in CallOutcomes :
         LET row     == ShoppingListRow(ssl, ssl.items)
             allowed == RlsAllows("smart_shopping_lists", "INSERT", session, row.profile_id)
             checked == ShoppingListChecked(row)
         IN
         /\ NoteCall("saveShoppingList", "insert", o, ~(allowed /\ checked), TRUE, TRUE)
         /\ rejected' =
              IF o = "ok" /\ ~checked
              THEN rejected \cup {"smart_shopping_lists.valid_list_type_status"}
              ELSE rejected
         /\ IF o = "ok" /\ allowed /\ checked
            THEN /\ smart_shopping_lists' = smart_shopping_lists \cup {row}
                 /\ currentList' = <<>>
                 /\ ssl' = SslIdle
                 /\ lsl' = "getUser"
                 /\ inflight' = (inflight \ {Site("saveShoppingList", "insert")})
                                  \cup {Site("loadShoppingLists", "getUser")}
                 /\ attempts' = Bump(ResetAttempts(ResetAttempts(attempts, "saveShoppingList"),
                                                   "loadShoppingLists"),
                                     Site("loadShoppingLists", "getUser"))
                 /\ UNCHANGED shoppingLists
            ELSE SslCatch
    /\ UNCHANGED <<appVars, stores, selectedStore, products, gsLoading,
                   lst, lp, gmp, notGrocery>>

\* generateFromMealPlan ------------------------------------------------------
\* rows of weekly_meal_plans: profile u1 has two active plans and a later
\* completed one, profile u2 only an archived one
weekly_meal_plans ==
    { [id |-> "m1", profile_id |-> "u1", status |-> "active",    created_at |-> 1],
      [id |-> "m2", profile_id |-> "u1", status |-> "active",    created_at |-> 2],
      [id |-> "m3", profile_id |-> "u1", status |-> "completed", created_at |-> 3],
      [id |-> "m4", profile_id |-> "u2", status |-> "archived",  created_at |-> 4] }

\* rows of recipes, column ingredients; quantity 0 stands for none given
recipes ==
    << << [ingredient |-> <<"S","a","l","m","o","n">>, quantity |-> 1],
          [ingredient |-> <<"T","o","f","u">>, quantity |-> 0] >>,
       << [ingredient |-> <<"S","a","l","m","o","n">>, quantity |-> 1] >> >>

\* the same select without eq('status', 'active')
PlansOfAnyStatus(uid) == Visible("weekly_meal_plans", uid, weekly_meal_plans)

\* lines 204-210: eq('status','active'), order created_at desc, limit 1,
\* of the rows the SELECT policy shows to `uid`
ActivePlans(uid) ==
    {m \in Visible("weekly_meal_plans", uid, weekly_meal_plans) : m.status = "active"}
LatestActivePlan(uid) ==
    {m \in ActivePlans(uid) : \A x \in ActivePlans(uid) : x.created_at <= m.created_at}

\* lines 224-231: quantities summed by ingredient name, in order of first
\* appearance; (ing.quantity || 1)
RECURSIVE Flatten(_)
Flatten(rs) == IF rs = <<>> THEN <<>> ELSE Head(rs) \o Flatten(Tail(rs))
RECURSIVE aggregate(_, _)
aggregate(ings, acc) ==
    IF ings = <<>> THEN acc
    ELSE LET ing == Head(ings)
             q   == IF ing.quantity = 0 THEN 1 ELSE ing.quantity
         IN aggregate(Tail(ings),
               IF \E i \in 1..Len(acc) : acc[i].name = ing.ingredient
               THEN [i \in 1..Len(acc) |->
                       IF acc[i].name = ing.ingredient
                       THEN [acc[i] EXCEPT !.quantity = @ + q] ELSE acc[i]]
               ELSE Append(acc, [name |-> ing.ingredient, quantity |-> q]))
aggregatedIngredients == aggregate(Flatten(recipes), <<>>)

\* lines 236-242: ilike('name', %ingredientName%), eq('in_stock', true)
MatchingProducts(ingredientName) ==
    {g \in grocery_products : g.in_stock /\ ilikeContains(g.name, ingredientName)}

GmpIdle == [pc |-> "idle", user |-> NoUser, plan |-> NoId, k |-> 0, list |-> <<>>]

GmpSite == SiteAt("generateFromMealPlan", gmp.pc, gmp.k)

\* the handler, with locals g, issues the call `to`
GmpGoto(g, to) ==
    /\ gmp' = [g EXCEPT !.pc = to]
    /\ inflight' = (inflight \ {GmpSite}) \cup {SiteAt("generateFromMealPlan", to, g.k)}
    /\ attempts' = Bump(attempts, SiteAt("generateFromMealPlan", to, g.k))
    /\ UNCHANGED <<smart_shopping_lists, lsl>>

\* the `return`s at lines 202, 212-215, 222, the else branch at 275-277 and
\* the catch block at lines 278-281
GmpEnd ==
    /\ gmp' = GmpIdle
    /\ inflight' = inflight \ {GmpSite}
    /\ attempts' = ResetAttempts(attempts, "generateFromMealPlan")
    /\ UNCHANGED <<smart_shopping_lists, lsl>>

\* line 306: the button; lines 199-201. Bound on the clicks: started once
\* saveShoppingList has returned, and while fewer than MaxLists lists were added.
GenerateFromMealPlan ==
    /\ appState = "dashboard" /\ currentView = "grocery" /\ ~gsLoading
    /\ gmp.pc = "idle" /\ ssl.pc = "idle"
    /\ Cardinality(smart_shopping_lists) < Cardinality(InitialLists) + MaxLists
    /\ gmp' = [GmpIdle EXCEPT !.pc = "getUser"]
    /\ inflight' = inflight \cup {Site("generateFromMealPlan", "getUser")}
    /\ attempts' = Bump(ResetAttempts(attempts, "generateFromMealPlan"),
                        Site("generateFromMealPlan", "getUser"))
    /\ UNCHANGED <<appVars, failures, failure, rejected, smart_shopping_lists, stores,
                   selectedStore, products, shoppingLists, currentList, gsLoading,
                   lst, lsl, lp, ssl, notGrocery>>

\* lines 201-210
GmpGetUser ==
    /\ gmp.pc = "getUser"
    /\ \E o \in CallOutcomes :
         /\ NoteFailure("generateFromMealPlan", "getUser", o, Handling(o, TRUE, FALSE))
         /\ IF o # "throw" /\ GetUser(o) # NoUser
            THEN GmpGoto([gmp EXCEPT !.user = GetUser(o)], "plans")
            ELSE GmpEnd
    /\ UNCHANGED <<appVars, rejected, stores, selectedStore, products, shoppingLists,
                   currentList, gsLoading, lst, lp, ssl, notGrocery>>

\* lines 204-221: the plan select resolves; only `data` is read
GmpPlans ==
    /\ gmp.pc = "plans"
    /\ \E o \in CallOutcomes :
         LET mealPlans == IF o = "ok" THEN LatestActivePlan(session) ELSE {} IN
         /\ NoteFailure("generateFromMealPlan", "plans", o, Handling(o, TRUE, FALSE))
         /\ IF o # "throw" /\ mealPlans # {}
            THEN \E m \in mealPlans : GmpGoto([gmp EXCEPT !.plan = m.id], "recipes")
            ELSE GmpEnd
    /\ UNCHANGED <<appVars, rejected, stores, selectedStore, products, shoppingLists,
                   currentList, gsLoading, lst, lp, ssl, notGrocery>>

\* lines 235-255: the next ingredient's product select, or lines 257-277
GmpNextIngredient(g, k) ==
    IF k <= Len(aggregatedIngredients) THEN GmpGoto([g EXCEPT !.k = k], "product")
    ELSE IF g.list # <<>> THEN GmpGoto([g EXCEPT !.k = 0], "insert")
    ELSE GmpEnd

\* lines 217-242: the recipes select resolves; only `data` is read
GmpRecipes ==
    /\ gmp.pc = "recipes"
    /\ \E o \in CallOutcomes :
         /\ NoteFailure("generateFromMealPlan", "recipes", o, Handling(o, TRUE, FALSE))
         /\ IF o = "ok" THEN GmpNextIngredient(gmp, 1) ELSE GmpEnd
    /\ UNCHANGED <<appVars, rejected, stores, selectedStore, products, shoppingLists,
                   currentList, gsLoading, lst, lp, ssl, notGrocery>>

\* lines 244-253: the item pushed for a product found
GeneratedItem(product, quantity) ==
    [product_id |-> product.id, quantity |-> quantity, price |-> product.price]

\* lines 236-255: the product select resolves (limit 1 without an order: any
\* matching row); only `data` is read
GmpProduct ==
    /\ gmp.pc = "product"
    /\ \E o \in CallOutcomes :
         LET ing   == aggregatedIngredients[gmp.k]
             found == IF o = "ok" THEN MatchingProducts(ing.name) ELSE {}
         IN
         /\ NoteFailure("generateFromMealPlan", "product", o, Handling(o, TRUE, FALSE))
         /\ IF o = "throw" THEN GmpEnd
            ELSE IF found = {} THEN GmpNextIngredient(gmp, gmp.k + 1)
            ELSE \E product \in found :
                    GmpNextIngredient(
                       [gmp EXCEPT !.list = Append(@, GeneratedItem(product, ing.quantity))],
                       gmp.k + 1)
    /\ UNCHANGED <<appVars, rejected, stores, selectedStore, products, shoppingLists,
                   currentList, gsLoading, lst, lp, ssl, notGrocery>>

\* lines 258-268: the row generateFromMealPlan sends
GeneratedListRow(g) ==
    [id |-> NewId(smart_shopping_lists), profile_id |-> g.user,
     store_id |-> NoId, source_meal_plan_id |-> g.plan,
     items |-> g.list, total_cost |-> calculateTotal(g.list),
     list_type |-> "weekly", status |-> "ready"]

\* lines 260-274: on success loadShoppingLists() is started and not awaited
GmpInsert ==
    /\ gmp.pc = "insert"
    /\ lsl = "idle"
    /\ \E o \in CallOutcomes :
         LET row     == GeneratedListRow(gmp)
             allowed == RlsAllows("smart_shopping_lists", "INSERT", session, row.profile_id)
             checked == ShoppingListChecked(row)
         IN
         /\ NoteCall("generateFromMealPlan", "insert", o, ~(allowed /\ checked), TRUE, TRUE)
         /\ rejected' =
              IF o = "ok" /\ ~checked
              THEN rejected \cup {"smart_shopping_lists.valid_list_type_status"}
              ELSE rejected
         /\ IF o = "ok" /\ allowed /\ checked
            THEN /\ smart_shopping_lists' = smart_shopping_lists \cup {row}
                 /\ gmp' = GmpIdle
                 /\ lsl' = "getUser"
                 /\ inflight' = (inflight \ {GmpSite})
                                  \cup {Site("loadShoppingLists", "getUser")}
                 /\ attempts' = Bump(ResetAttempts(ResetAttempts(attempts,
                                         "generateFromMealPlan"), "loadShoppingLists"),
                                     Site("loadShoppingLists", "getUser"))
            ELSE GmpEnd
    /\ UNCHANGED <<appVars, stores, selectedStore, products, shoppingLists,
                   currentList, gsLoading, lst, lp, ssl, notGrocery>>

GroceryNext ==
    \/ LoadStores
    \/ \E s \in {x.id : x \in grocery_stores} : SelectStore(s)
    \/ LoadProducts
    \/ LslGetUser
    \/ LslSelect
    \/ \E g \in {x.id : x \in grocery_products} : AddToList(g)
    \/ SaveShoppingList
    \/ SslGetUser
    \/ SslInsert
    \/ GenerateFromMealPlan
    \/ GmpGetUser
    \/ GmpPlans
    \/ GmpRecipes
    \/ GmpProduct
    \/ GmpInsert

\* ---------------------------------------------------------------------
\* A signed-in client of the data API working on one table
\* ---------------------------------------------------------------------
\* A row: its id, its owner (the value of profile_id; of id for profiles)
\* and one data column v
RowIds      == 1..MaxRows
InitialRows == { [id |-> 1, profile_id |-> "u1", v |-> 0],
                 [id |-> 2, profile_id |-> "u2", v |-> 0] }

NoRequest == [op |-> "none", denied |-> FALSE, data |-> {}]
Response(op, denied, data) == [op |-> op, denied |-> denied, data |-> data]

\* select * from t where id in ids
ClientSelect(ids) ==
    /\ rlsTable # "none"
    /\ returned' = Response("select", FALSE,
                            {r \in Visible(rlsTable, session, rlsRows) : r.id \in ids})
    /\ UNCHANGED <<rlsTable, rlsRows>>

\* insert into t values (id, owner, v) returning *
InsertAllowed(uid, row) ==
    /\ ~\E r \in rlsRows : r.id = row.id
    /\ RlsAllows(rlsTable, "INSERT", uid, row.profile_id)

ClientInsert(row) ==
    /\ rlsTable # "none"
    /\ IF InsertAllowed(session, row)
       THEN /\ rlsRows' = rlsRows \cup {row}
            /\ returned' = Response("insert", FALSE, Visible(rlsTable, session, {row}))
       ELSE /\ rlsRows' = rlsRows
            /\ returned' = Response("insert", TRUE, {})
    /\ UNCHANGED rlsTable

\* the row an update writes over r: owner "keep" leaves profile_id alone
Updated(r, owner, v) ==
    [r EXCEPT !.profile_id = IF owner = "keep" THEN @ ELSE owner, !.v = v]

\* update t set profile_id = owner, v = v where id in ids returning *
\* USING selects the rlsRows, WITH CHECK must hold of every new row
ClientUpdate(ids, owner, v) ==
    /\ rlsTable # "none"
    /\ LET targets == {r \in Updatable(rlsTable, session, rlsRows) : r.id \in ids}
           written == {Updated(r, owner, v) : r \in targets}
           passes  == \A w \in written : RlsAllows(rlsTable, "UPDATE", session, w.profile_id)
       IN IF passes
          THEN /\ rlsRows' = (rlsRows \ targets) \cup written
               /\ returned' = Response("update", FALSE, Visible(rlsTable, session, written))
          ELSE /\ rlsRows' = rlsRows
               /\ returned' = Response("update", TRUE, {})
    /\ UNCHANGED rlsTable

\* insert ... on conflict (id) do update: the INSERT policy checks the row
\* sent; on a conflict the UPDATE policy checks the row found and the row
\* written
ClientUpsert(row) ==
    /\ rlsTable # "none"
    /\ LET found == {r \in rlsRows : r.id = row.id}
           passes ==
               /\ RlsAllows(rlsTable, "INSERT", session, row.profile_id)
               /\ found # {} =>
                    /\ found \subseteq Updatable(rlsTable, session, rlsRows)
                    /\ RlsAllows(rlsTable, "UPDATE", session, row.profile_id)
       IN IF passes
          THEN /\ rlsRows' = (rlsRows \ found) \cup {row}
               /\ returned' = Response("upsert", FALSE, Visible(rlsTable, session, {row}))
          ELSE /\ rlsRows' = rlsRows
               /\ returned' = Response("upsert", TRUE, {})
    /\ UNCHANGED rlsTable

\* delete from t where id in ids returning *
ClientDelete(ids) ==
    /\ rlsTable # "none"
    /\ LET targets == {r \in Visible(rlsTable, session, rlsRows) :
                          r.id \in ids /\ RlsAllows(rlsTable, "DELETE", session, r.profile_id)}
       IN /\ rlsRows' = rlsRows \ targets
          /\ returned' = Response("delete", FALSE, targets)
    /\ UNCHANGED rlsTable

ClientRows == [id : RowIds, profile_id : ProfileIds, v : {0, 1}]

\* the filters of a request: one id, or none (every row)
ClientFilters == {{i} : i \in RowIds} \cup {RowIds}

ClientNext ==
    /\ \/ \E ids \in ClientFilters : ClientSelect(ids)
       \/ \E row \in ClientRows : ClientInsert(row)
       \/ \E ids \in ClientFilters, owner \in ProfileIds \cup {"keep"}, v \in {0, 1} :
             ClientUpdate(ids, owner, v)
       \/ \E row \in ClientRows : ClientUpsert(row)
       \/ \E ids \in ClientFilters : ClientDelete(ids)
    /\ UNCHANGED <<appVars, callVars, lookupVars, dishVars, riskVars, medVars, groceryVars>>

\* ---------------------------------------------------------------------
\* App.tsx / Dashboard.tsx
\* ---------------------------------------------------------------------
Views == {"overview", "food-lookup", "restaurants", "grocery", "medications"}

\* the calls the mount effects of a view start, none of them awaited
MountCalls(v) ==
    CASE v = "restaurants" -> {Site("loadRestaurants", "select")}
      [] v = "medications" -> {Site("loadMedications", "select"),
                               Site("loadTodaysDoses", "select"),
                               Site("loadInteractionAlerts", "select")}
      [] v = "grocery"     -> {Site("loadStores", "select"),
                               Site("loadShoppingLists", "getUser")}
      [] OTHER             -> {}

BumpAll(att, S) ==
    [k \in DOMAIN att \cup S |->
        (IF k \in DOMAIN att THEN att[k] ELSE 0) + (IF k \in S THEN 1 ELSE 0)]

\* Dashboard.tsx line 17 and lines 158-169: the view component is mounted and
\* its mount effects run
SetCurrentView(v) ==
    /\ appState = "dashboard" /\ currentView = "overview"
    /\ v \in Views \ {"overview"}
    /\ currentView' = v
    /\ lr'  = IF v = "restaurants" THEN "select" ELSE lr
    /\ lm'  = IF v = "medications" THEN "select" ELSE lm
    /\ ltd' = IF v = "medications" THEN "select" ELSE ltd
    /\ lia' = IF v = "medications" THEN "select" ELSE lia
    /\ lst' = IF v = "grocery" THEN "select" ELSE lst
    /\ lsl' = IF v = "grocery" THEN "getUser" ELSE lsl
    /\ inflight' = inflight \cup MountCalls(v)
    /\ attempts' = BumpAll(attempts, MountCalls(v))
    /\ UNCHANGED <<appState, session, so, failures, failure, rejected, lookupVars,
                   restaurants, rbLoading, selectedRestaurant, dishes, riskAssessments,
                   filterRisk, ld, dish_risk_assessments, riskVars,
                   medTables, medUi, am, mdt, ack,
                   smart_shopping_lists, stores, selectedStore, products,
                   shoppingLists, currentList, gsLoading, lp, ssl, gmp, rlsVars>>

\* App.tsx lines 48-52
HandleSignOut ==
    /\ appState = "dashboard" /\ so = "idle"
    /\ so' = "signOut"
    /\ inflight' = inflight \cup {Site("handleSignOut", "signOut")}
    /\ attempts' = Bump(ResetAttempts(attempts, "handleSignOut"),
                        Site("handleSignOut", "signOut"))
    /\ UNCHANGED <<appState, currentView, session, failures, failure, rejected,
                   lookupVars, dishVars, riskVars, medVars, groceryVars, rlsVars>>

SignOutResolves ==
    /\ so = "signOut"
    /\ \E o \in CallOutcomes :
         /\ NoteFailure("handleSignOut", "signOut", o, Handling(o, FALSE, FALSE))
         /\ session' = IF o = "ok" THEN NoUser ELSE session
         /\ appState' = IF o = "throw" THEN appState ELSE "landing"
    /\ so' = "idle"
    /\ inflight' = inflight \ {Site("handleSignOut", "signOut")}
    /\ attempts' = ResetAttempts(attempts, "handleSignOut")
    /\ UNCHANGED <<currentView, rejected, lookupVars, dishVars, riskVars, medVars,
                   groceryVars, rlsVars>>

AppNext == HandleSignOut \/ SignOutResolves

\* the application after sign-in, the dashboard showing its overview
InitApp ==
    /\ appState = "dashboard" /\ currentView = "overview"
    /\ session \in ProfileIds /\ so = "idle"
    /\ inflight = {} /\ attempts = <<>> /\ failures = 0 /\ failure = NoFailure
    /\ rejected = {}
    /\ lk = LkIdle /\ rl = [pc |-> "idle"] /\ result = {} /\ lkLoading = FALSE
    /\ recentLookups = <<>> /\ food_lookup_history = <<>>
    /\ restaurants = {} /\ rbLoading = TRUE /\ lr = "idle"
    /\ selectedRestaurant = NoId /\ dishes = <<>> /\ riskAssessments = <<>>
    /\ filterRisk = "all" /\ ld = LdIdle
    /\ dish_risk_assessments = {}
    /\ assessed = {}
    /\ assessedDish = NoDish
    /\ user_medications = InitialMedications /\ medication_doses = InitialDoses
    /\ user_interaction_alerts = InitialAlerts
    /\ medications = {} /\ todaysDoses = {} /\ interactionAlerts = {}
    /\ mtLoading = TRUE
    /\ lm = "idle" /\ ltd = "idle" /\ lia = "idle"
    /\ am = AmIdle /\ mdt = MdtIdle /\ ack = AckIdle
    /\ smart_shopping_lists = InitialLists
    /\ stores = {} /\ selectedStore = NoId /\ products = {} /\ shoppingLists = {}
    /\ currentList = <<>> /\ gsLoading = TRUE
    /\ lst = "idle" /\ lsl = "idle" /\ lp = "idle" /\ ssl = SslIdle
    /\ gmp = GmpIdle

Init ==
    /\ InitApp
    /\ rlsTable = "none" /\ rlsRows = {} /\ returned = NoRequest

\* the whole application: the user opens one view and works in it, or signs
\* out from the overview
Next ==
    \/ so = "idle" /\ \E v \in Views \ {"overview"} : SetCurrentView(v)
    \/ currentView = "overview" /\ AppNext
    \/ LookupNext
    \/ DishNext
    \/ MedNext
    \/ GroceryNext
Spec == Init /\ [][Next]_vars

NextLookup == SetCurrentView("food-lookup") \/ AppNext \/ LookupNext
SpecLookup == Init /\ [][NextLookup]_vars

NextDish == SetCurrentView("restaurants") \/ AppNext \/ DishNext
SpecDish == Init /\ [][NextDish]_vars

NextMed == SetCurrentView("medications") \/ AppNext \/ MedNext
SpecMed == Init /\ [][NextMed]_vars

NextGrocery == SetCurrentView("grocery") \/ AppNext \/ GroceryNext
SpecGrocery == Init /\ [][NextGrocery]_vars

\* calculateDishRisk on every ingredients list of up to MaxIngredients names
SpecRisk == Init /\ [][RiskNext]_vars

\* calculateDishRisk on every ingredients list, the dish kept with its result
NextRiskDish == \E names \in IngredientLists : AssessNamedDish(names)
SpecRiskDish == Init /\ [][NextRiskDish]_vars

\* a client of the data API on any one table, or the MedicationTracker view
InitRLS ==
    /\ InitApp
    /\ rlsTable \in Tables \cup {"none"}
    /\ rlsRows = IF rlsTable = "none" THEN {} ELSE InitialRows
    /\ returned = NoRequest
NextRLS ==
    \/ ClientNext
    \/ rlsTable = "none" /\ SetCurrentView("medications")
    \/ rlsTable = "none" /\ MedNext
SpecRLS == InitRLS /\ [][NextRLS]_vars

\* ---------------------------------------------------------------------
\* Properties
\* ---------------------------------------------------------------------

\* C1: first match wins in handleLookup - once the species-toxicity or the
\* species-unsafe rule has matched, no later rule changes the classification:
\* the result shown is 'avoid' whatever contraindication rows exist.
C1_FirstMatchWins ==
    \A r \in result :
        (r.matched \cap {"toxic", "unsafe"} # {}) => r.safety_classification = "avoid"

\* the rows of a table that belong to other profiles than the signed-in one
OthersRows(S) == {r \in S : r.profile_id # session}

\* C2: multi-tenant isolation - no request of the signed-in user returns a row
\* of another profile, and the rows of other profiles are neither created nor
\* changed nor deleted; the same for what loadMedications, loadTodaysDoses and
\* loadInteractionAlerts show and what markDoseTaken and acknowledgeAlert write.
C2_Isolation ==
    /\ \A r \in returned.data : r.profile_id = session
    /\ rlsTable # "none" => OthersRows(rlsRows) = OthersRows(InitialRows)
    /\ \A r \in medications : r.profile_id = session
    /\ \A r \in todaysDoses : r.profile_id = session
    /\ \A r \in interactionAlerts : r.profile_id = session
    /\ OthersRows(user_medications) = OthersRows(InitialMedications)
    /\ OthersRows(medication_doses) = OthersRows(InitialDoses)
    /\ OthersRows(user_interaction_alerts) = OthersRows(InitialAlerts)

\* a request was refused while the other profile's row is in the table
C2_Witness ==
    /\ returned.denied
    /\ returned.op = "update"
    /\ OthersRows(rlsRows) # {}

\* C3: every failure of a remote call, returned or thrown, is caught at its
\* call site and logged: none escapes uncaught, none is passed over unlogged.
C3_FailuresLogged == failure.handling \in {"none", "logged"}

\* C4: at most one remote call started by the application is in flight.
C4_OneInFlight == Cardinality(inflight) <= 1

\* C5: after addMedication has completed for a medication with a recorded
\* interaction, and the alerts have been reloaded, an unacknowledged alert for
\* that medication is shown to the user.
C5_AlertAfterAdd ==
    (failures = 0 /\ am.pc = "idle" /\ lia = "idle" /\ session \in ProfileIds) =>
        \A m \in user_medications :
            (m.profile_id = session /\ m.active
             /\ m.medication_name \in RecordedInteractions) =>
                \E a \in interactionAlerts :
                    m.id \in a.user_medication_ids /\ ~a.acknowledged

\* C6: within one invocation of a handler every remote operation is issued at
\* most once; a failure ends the operation without a retry.
C6_NoRetry == \A k \in DOMAIN attempts : attempts[k] <= 1

\* addMedication's insert failed and the handler has ended
C6_Witness ==
    /\ failure.h = "addMedication" /\ failure.site = "insert"
    /\ am.pc = "idle"
    /\ Site("addMedication", "insert") \notin inflight

\* C7: every classification or status value the application writes is one
\* its check constraint allows, and no write is refused by a check constraint.
C7_WritesWithinCheck ==
    /\ rejected = {}
    /\ lk.pc = "insert" => LookupHistoryRow(lk).safety_classification \in valid_safety
    /\ ld.pc = "upsert" => DishUpsertChecked(DishAssessmentRow(ld))
    /\ ssl.pc = "insert" => ShoppingListChecked(ShoppingListRow(ssl, ssl.items))
    /\ gmp.pc = "insert" => ShoppingListChecked(GeneratedListRow(gmp))
    /\ (am.h = "generateDoseSchedule" /\ am.pc = "insert") =>
          DoseRow(am).status \in valid_dose_status
    /\ mdt.pc = "update" => DoseStatusTaken \in valid_dose_status
    /\ \A i \in 1..Len(food_lookup_history) :
          food_lookup_history[i].safety_classification \in valid_safety
    /\ \A r \in dish_risk_assessments : r.risk_classification \in valid_risk_classification
    /\ \A r \in smart_shopping_lists : ShoppingListChecked(r)
    /\ \A r \in medication_doses : r.status \in valid_dose_status

\* a lookup that ran the contraindication rule has been written to the history
C7_Witness ==
    \E i \in 1..Len(food_lookup_history) :
        /\ food_lookup_history[i].rule \in {"contra_avoid", "contra_limit"}
        /\ food_lookup_history[i].safety_classification = "caution"

\* the order of the classifications by severity
Severity(c) ==
    CASE c = "safe" -> 1 [] c = "beneficial" -> 1 [] c = "neutral" -> 2
      [] c = "caution" -> 3 [] c = "avoid" -> 4

\* C8: the risk_score calculateDishRisk returns lies within 0..100 and grows
\* with the severity of the classification: safe < neutral < caution < avoid.
C8_ScoreMonotone ==
    /\ \A a \in assessed : a.risk_score >= 0 /\ a.risk_score <= 100
    /\ \A a, b \in assessed :
          Severity(a.risk_classification) < Severity(b.risk_classification)
             => a.risk_score < b.risk_score

\* results of every severity have been produced
C8_Witness ==
    {a.risk_classification : a \in assessed} = {"safe", "neutral", "caution", "avoid"}

\* an ingredient whose row warns of toxicity for dogs or cats, or flags it
\* unsafe for them
PetSpecies == {"dog", "cat"}
PetToxic(ing) ==
    \/ \E i \in 1..Len(ing.toxicity_warnings) :
          ing.toxicity_warnings[i].species \cap PetSpecies # {}
    \/ \E s \in PetSpecies \cap DOMAIN ing.species_safe : ing.species_safe[s] = FALSE

\* C9: for a signed-in pet profile, the lookup of an ingredient that is toxic
\* or unsafe for dogs and cats shows 'avoid'.
C9_PetNeverSafe ==
    \A r \in result :
        (/\ failures = 0
         /\ session \in ProfileIds
         /\ profiles[session].species_type = "pet"
         /\ r.ingredients_identified # <<>>
         /\ \E ing \in ingredients :
               ing.name = r.ingredients_identified[1] /\ PetToxic(ing))
        => r.safety_classification = "avoid"

\* the dish has been assessed 'avoid' for the signed-in user: in the map being
\* built, in the map shown, or in the stored assessments
AssessedAvoid(d) ==
    \/ d \in DOMAIN ld.assessmentMap /\ ld.assessmentMap[d].risk_classification = "avoid"
    \/ d \in DOMAIN riskAssessments /\ riskAssessments[d].risk_classification = "avoid"
    \/ \E r \in dish_risk_assessments :
          r.profile_id = session /\ r.dish_id = d /\ r.risk_classification = "avoid"

\* C10: a dish assessed 'avoid' for the current user is not listed under any
\* filter and its Add button is not enabled, also while the assessments of
\* the selected restaurant's dishes are being computed.
C10_AvoidNeverListed ==
    (appState = "dashboard" /\ selectedRestaurant # NoId) =>
        \A k \in 1..Len(dishes) :
            AssessedAvoid(dishes[k]) => ~Listed(dishes[k]) /\ ~AddEnabled(dishes[k])

\* the dish holds a known ingredient that has a contraindication row for the
\* species
HasContraindication(names, speciesType) ==
    \E j \in 1..Len(names) :
        \E ing \in DishIngredientRows(names[j]) :
            DishContraindicationRows(ing.id, speciesType) # {}

\* C11: a dish that contains a known ingredient with at least one
\* contraindication row for the profile's species is classified 'caution' or
\* 'avoid' by calculateDishRisk, never 'safe'.
C11_ContraindicatedNeverSafe ==
    (/\ assessedDish # NoDish
     /\ session \in ProfileIds
     /\ HasContraindication(assessedDish.ingredients, profiles[session].species_type))
    => assessedDish.risk_classification \in {"caution", "avoid"}

\* the rows dish_risk_assessments holds for a profile and a dish
StoredAssessments(S, uid, d) == {r \in S : r.profile_id = uid /\ r.dish_id = d}

\* C12: when the upsert of assessDishRisks resolves for the signed-in user
\* without a failure of the call, dish_risk_assessments holds exactly one row
\* for (profile, dish), the assessment just computed - also when that dish
\* was assessed for that user in an earlier visit.
C12_StoredIsLatest ==
    [][(/\ ld.pc = "upsert" /\ ld'.pc # "upsert"
        /\ failures' = failures
        /\ session = ld.user)
       => StoredAssessments(dish_risk_assessments', ld.user, ld.dishList[ld.i])
             = {DishAssessmentRow(ld)}]_vars

\* saveShoppingList ends in this step without a successful insert: getUser
\* gave no user, or the insert failed or was refused
SaveEndsFailed ==
    /\ ssl.pc # "idle" /\ ssl'.pc = "idle"
    /\ \/ ssl.pc = "getUser"
       \/ failures' # failures
       \/ session # ssl.user

\* C13: the only step of saveShoppingList that changes the current list is the
\* one in which its insert succeeds: it adds the row sent and empties the list; when saveShoppingList
\* ends on a failed insert or without a user, the current list and
\* smart_shopping_lists are left as they were.
C13_ClearOnlyOnSuccess ==
    [][/\ (ssl.pc # "idle" /\ ssl' # ssl /\ currentList' # currentList) =>
            /\ ssl.pc = "insert"
            /\ currentList' = <<>>
            /\ smart_shopping_lists' =
                   smart_shopping_lists \cup {ShoppingListRow(ssl, ssl.items)}
       /\ SaveEndsFailed =>
            /\ currentList' = currentList
            /\ smart_shopping_lists' = smart_shopping_lists]_vars

\* the insert of saveShoppingList has failed and the list is still there
C13_Witness ==
    /\ failure.h = "saveShoppingList" /\ failure.site = "insert"
    /\ ssl.pc = "idle"
    /\ currentList # <<>>
    /\ smart_shopping_lists = InitialLists

\* the sum of price x quantity over the first n items of a stored list
RECURSIVE CostOfItems(_, _)
CostOfItems(items, n) ==
    IF n = 0 THEN 0
    ELSE CostOfItems(items, n - 1) + items[n].price * items[n].quantity

\* the rows the app has inserted into smart_shopping_lists
InsertedLists == smart_shopping_lists \ InitialLists

\* C14: every smart_shopping_lists row inserted by saveShoppingList or by
\* generateFromMealPlan has total_cost equal to the sum of price x quantity
\* over exactly the items stored in that row.
C14_TotalMatchesItems ==
    \A r \in InsertedLists : r.total_cost = CostOfItems(r.items, Len(r.items))

\* a generated list is stored whose item has an aggregated quantity above one
C14_Witness ==
    \E r \in InsertedLists :
        /\ r.source_meal_plan_id # NoId
        /\ \E i \in DOMAIN r.items : r.items[i].quantity > 1

\* the plans of profile uid with status 'active', read off the table
OwnActivePlans(uid) ==
    {m \in weekly_meal_plans : m.profile_id = uid /\ m.status = "active"}

\* the in-stock products whose name contains some ingredient of the recipes
ProductsForIngredients ==
    {g \in grocery_products :
        /\ g.in_stock
        /\ \E i \in DOMAIN aggregatedIngredients :
              ilikeContains(g.name, aggregatedIngredients[i].name)}

\* C15: a step of generateFromMealPlan adds a row to smart_shopping_lists only
\* for the signed-in user, only if that user has a plan with status 'active',
\* with source_meal_plan_id the most recently created of that user's active
\* plans, and with at least one item, every item an in-stock product matching
\* an ingredient; so with no user, no active plan or no matching product,
\* nothing is inserted.
C15_GeneratedFromLatestActivePlan ==
    [][(gmp' # gmp /\ smart_shopping_lists' # smart_shopping_lists) =>
          \E r \in smart_shopping_lists' \ smart_shopping_lists :
              /\ smart_shopping_lists' = smart_shopping_lists \cup {r}
              /\ r.profile_id # NoUser /\ r.profile_id = session
              /\ \E m \in OwnActivePlans(r.profile_id) :
                    /\ r.source_meal_plan_id = m.id
                    /\ \A x \in OwnActivePlans(r.profile_id) : x.created_at <= m.created_at
              /\ r.items # <<>>
              /\ \A i \in DOMAIN r.items :
                    r.items[i].product_id \in {g.id : g \in ProductsForIngredients}]_vars

\* the list generated for profile u1 from the newer of its two active plans
C15_Witness ==
    \E r \in InsertedLists :
        /\ r.profile_id = "u1" /\ r.source_meal_plan_id = "m2"
        /\ gmp = GmpIdle

\* the ingredients whose name contains the query, as ilike '%query%' finds them
MatchingIngredients(query) == {x \in ingredients : ilikeContains(x.name, query)}

\* C16: the result handleLookup shows for a query that matches no ingredient
\* is 'caution' with an empty ingredients_identified, never 'safe'; for a
\* query that matches an ingredient, ingredients_identified holds exactly
\* one name, that of a matching ingredient.
C16_IdentifiedIngredient ==
    \A r \in result :
        IF MatchingIngredients(r.food_name) = {}
        THEN r.safety_classification = "caution" /\ r.ingredients_identified = <<>>
        ELSE \E x \in MatchingIngredients(r.food_name) :
                r.ingredients_identified = <<x.name>>

====
